---- MODULE Spec2Model ----
(***************************************************************************)
(* State-machine model of the session-scoped messaging backend             *)
(* (backend.py): the SessionManager registry, the per-session              *)
(* InstagramBotManager runner, and the API routes that drive them.         *)
(*                                                                         *)
(* The routes are `async def` handlers on one event loop.  A handler runs  *)
(* without interruption until it suspends; the only suspension point that  *)
(* lets another handler run is `await asyncio.sleep(delay)` between two    *)
(* items of send_messages_batch (the client calls are synchronous, and     *)
(* awaiting a coroutine that never suspends does not yield).  Hence one    *)
(* action per route, and the send-messages route is split at the sleeps.   *)
(***************************************************************************)
EXTENDS Integers, Sequences, FiniteSets, TLC

\* ---------------------------------------------------------------- bounds
MaxTime == 7200          \* the clock stops advancing here
MaxSessions == 2         \* number of create_session calls (fresh uuid4 tokens)
MaxRequests == 2         \* number of send-messages requests
MaxHandles == 2          \* longest usernames list of a request

\* ------------------------------------------------------ program constants
session_timeout == 3600

\* ----------------------------------------------------------------- inputs
TickSteps == {3600}                       \* seconds between two observations of the clock
Users == {"alice", "bob"}                 \* identities that log in
Handles == {"carol", "dave"}              \* recipients
Messages == {"hi", " "}                   \* request.message: a text and a blank
ErrTexts == {"feedback_required", "timeout"}   \* str(e) of a failed direct_send
DelayRanges == {<<>>, <<1, 2>>}         \* request.delay_range: List[int]
AuthOutcomes == {"ok", "challenge", "login_required", "resolve_error", "error"}
LookupOutcomes == {"found", "missing"}    \* user_info_by_username: a pk, or raises
DeliverOutcomes == {"ok"} \cup ErrTexts   \* direct_send: returns, or raises str(e)

Tokens == 1..MaxSessions
NoCookie == 0                             \* the request carries no session_id cookie
Cookies == {NoCookie} \cup Tokens
Requests == 1..MaxRequests
NoUser == "None"                          \* Python None in a username field
NoTime == -1                              \* Python None in a time field
None == <<>>                              \* Python None in MessageResult.error
HandleLists == UNION {[1..n -> Handles] : n \in 0..MaxHandles}

Range(q) == {q[k] : k \in 1..Len(q)}
Min(a, b) == IF a <= b THEN a ELSE b
Max(a, b) == IF a >= b THEN a ELSE b

VARIABLES
    now,            \* datetime.now(), in seconds
    sessions,       \* SessionManager.sessions: token -> record
    bots,           \* the InstagramBotManager objects ever constructed, by object
    nextToken,      \* the next fresh uuid4
    session_files,  \* usernames u for which session_<u>.json exists on disk
    batches,        \* the send-messages requests: request -> its progress
    lookups,        \* the get_session calls in flight: call -> its progress
    cli,            \* config.json and usernames.txt of the working directory,
                    \* and the run_bot command-line run: its input and steps
    resp            \* the response of the request that completed last

vars ==
    <<now, sessions, bots, nextToken, session_files, batches, lookups, cli,
      resp>>

\* ------------------------------------------------------- SessionManager
\* InstagramBotManager.__init__
NewBot == [is_logged_in |-> FALSE, username |-> NoUser, session_file |-> NoUser]

\* a create_session that hands every session the same module-level runner
shared_bot_manager(heap) == 1

\* the object that the next InstagramBotManager() of create_session yields:
\* one that no earlier construction yielded
new_bot_manager(heap) == Cardinality(DOMAIN heap) + 1

\* the objects after InstagramBotManager() was constructed as object bm
construct(heap, bm) ==
    [o \in DOMAIN heap \cup {bm} |-> IF o = bm THEN NewBot ELSE heap[o]]

\* a create_session whose record expires at once
create_session_no_timeout(reg, sid, username, t, bm) ==
    [s \in DOMAIN reg \cup {sid} |->
        IF s = sid
        THEN [username |-> username, created_at |-> t, last_activity |-> t,
              expires_at |-> t, bot_manager |-> bm]
        ELSE reg[s]]

\* SessionManager.create_session: the registry with the new record, whose
\* 'bot_manager' is the object bm
create_session(reg, sid, username, t, bm) ==
    [s \in DOMAIN reg \cup {sid} |->
        IF s = sid
        THEN [username |-> username, created_at |-> t, last_activity |-> t,
              expires_at |-> t + session_timeout, bot_manager |-> bm]
        ELSE reg[s]]

Remove(reg, sid) == [s \in DOMAIN reg \ {sid} |-> reg[s]]

\* get_session that treats a session as expired from expires_at on
get_session_ge(reg, sid, t) ==
    IF sid \notin DOMAIN reg
    THEN [found |-> FALSE, reg |-> reg]
    ELSE IF t >= reg[sid].expires_at
         THEN [found |-> FALSE, reg |-> Remove(reg, sid)]
         ELSE [found |-> TRUE, reg |-> reg]

\* a get_session that, finding its record expired, sweeps the whole registry
get_session_sweeps(reg, sid, t) ==
    IF sid \notin DOMAIN reg
    THEN [found |-> FALSE, reg |-> reg]
    ELSE IF t > reg[sid].expires_at
         THEN [found |-> FALSE,
               reg |-> [s \in {x \in DOMAIN reg : ~(t > reg[x].expires_at)} |->
                           reg[s]]]
         ELSE [found |-> TRUE, reg |-> reg]

\* SessionManager.get_session: what it returns and the registry it leaves
get_session(reg, sid, t) ==
    IF sid \notin DOMAIN reg
    THEN [found |-> FALSE, reg |-> reg]
    ELSE IF t > reg[sid].expires_at
         THEN [found |-> FALSE, reg |-> Remove(reg, sid)]
         ELSE [found |-> TRUE, reg |-> reg]

\* an update_activity that touches every record of the registry
update_activity_all(reg, sid, t) ==
    IF sid \in DOMAIN reg
    THEN [reg |-> [s \in DOMAIN reg |-> [reg[s] EXCEPT !.last_activity = t]],
          raised |-> FALSE]
    ELSE [reg |-> reg, raised |-> FALSE]

\* an update_activity that also moves the expiry: a sliding window
update_activity_sliding(reg, sid, t) ==
    IF sid \in DOMAIN reg
    THEN [reg |-> [reg EXCEPT ![sid].last_activity = t,
                              ![sid].expires_at = t + session_timeout],
          raised |-> FALSE]
    ELSE [reg |-> reg, raised |-> FALSE]

\* SessionManager.update_activity as a call: the registry it leaves, and whether
\* it raised (the subscript is under `if session_id in self.sessions`)
update_activity_call(reg, sid, t) ==
    IF sid \in DOMAIN reg
    THEN [reg |-> [reg EXCEPT ![sid].last_activity = t], raised |-> FALSE]
    ELSE [reg |-> reg, raised |-> FALSE]

\* SessionManager.update_activity: the registry it leaves
update_activity(reg, sid, t) == update_activity_call(reg, sid, t).reg

\* delete_session that removes every session of the user of the named one
delete_session_of_user(reg, sid) ==
    IF sid \in DOMAIN reg
    THEN [s \in {x \in DOMAIN reg : reg[x].username # reg[sid].username} |->
             reg[s]]
    ELSE reg

\* `del self.sessions[session_id]`: the dict it leaves, and whether it raised
\* KeyError
del_session(reg, sid) ==
    IF sid \in DOMAIN reg
    THEN [reg |-> Remove(reg, sid), raised |-> FALSE]
    ELSE [reg |-> reg, raised |-> TRUE]

\* delete_session without its `if session_id in self.sessions`
delete_session_unguarded(reg, sid) == del_session(reg, sid)

\* SessionManager.delete_session as a call: the registry it leaves, and whether
\* it raised
delete_session_call(reg, sid) ==
    IF sid \in DOMAIN reg
    THEN del_session(reg, sid)
    ELSE [reg |-> reg, raised |-> FALSE]

\* SessionManager.delete_session: the registry it leaves
delete_session(reg, sid) == delete_session_call(reg, sid).reg

\* a get_session whose handler is suspended between the check and the `del`
get_session_preempted == TRUE

\* whether anything can run between the expiry check of get_session and its
\* `del`: get_session is a plain `def` without an await, called from handlers
\* that all run on the one event loop
get_session_suspends == FALSE

\* a get_session call that has not been made
IdleLookup ==
    [pc |-> "idle", sid |-> NoCookie, present |-> FALSE, live |-> FALSE,
     found |-> FALSE]

\* get_session in its two halves.  From "idle": the membership test and the
\* expiry check, and with them, unless the call is suspended there, the `del`
\* and the return (as get_session).  From "expired": the `del` of a call that
\* was suspended after its check, which raises KeyError if the record has gone
get_session_step(lk, reg, sid, t) ==
    IF lk.pc = "idle"
    THEN LET seen == [lk EXCEPT !.sid = sid, !.present = sid \in DOMAIN reg,
                                !.live = sid \in DOMAIN reg /\
                                         ~(t > reg[sid].expires_at)]
         IN  IF seen.present /\ ~seen.live /\ get_session_suspends
             THEN [lookup |-> [seen EXCEPT !.pc = "expired"], reg |-> reg]
             ELSE [lookup |-> [seen EXCEPT !.pc = "returned",
                                 !.found = get_session(reg, sid, t).found],
                   reg |-> get_session(reg, sid, t).reg]
    ELSE [lookup |-> [lk EXCEPT !.pc = IF del_session(reg, lk.sid).raised
                                       THEN "raised" ELSE "returned"],
          reg |-> del_session(reg, lk.sid).reg]

\* a sweep that takes a record for expired from expires_at on
cleanup_expired_sessions_ge(reg, t) ==
    [s \in {x \in DOMAIN reg : ~(t >= reg[x].expires_at)} |-> reg[s]]

\* SessionManager.cleanup_expired_sessions
cleanup_expired_sessions(reg, t) ==
    [s \in {x \in DOMAIN reg : ~(t > reg[x].expires_at)} |-> reg[s]]

\* a listing that does not sweep first
get_active_sessions_nosweep(reg, t) == reg

\* SessionManager.get_active_sessions: the registry it leaves
get_active_sessions(reg, t) == cleanup_expired_sessions(reg, t)

\* SessionInfo(session_id=sid, username=session['username'], ...)
SessionInfo(sid, session) ==
    [session_id |-> sid, username |-> session.username,
     created_at |-> session.created_at, last_activity |-> session.last_activity,
     expires_at |-> session.expires_at]

\* the list that SessionManager.get_active_sessions returns: one SessionInfo per
\* item of the registry it leaves, in the order of the dict (tokens enter the
\* dict in the order they are issued)
session_infos(reg) ==
    LET order == SelectSeq([k \in 1..MaxSessions |-> k],
                           LAMBDA k : k \in DOMAIN reg)
    IN  [k \in 1..Len(order) |-> SessionInfo(order[k], reg[order[k]])]

\* get_current_session that returns every record of the registry, expired or not
get_current_session_unexpiring(reg, cookie, t) ==
    [found |-> cookie \in DOMAIN reg, reg |-> reg]

\* get_current_session: `if not session_id: return None`
get_current_session(reg, cookie, t) ==
    IF cookie = NoCookie
    THEN [found |-> FALSE, reg |-> reg]
    ELSE get_session(reg, cookie, t)

\* get_current_bot_manager: found iff a bot manager is returned
get_current_bot_manager(reg, cookie, t) ==
    LET g == get_current_session(reg, cookie, t)
    IN  IF g.found
        THEN [found |-> TRUE, reg |-> update_activity(g.reg, cookie, t)]
        ELSE [found |-> FALSE, reg |-> g.reg]

\* ------------------------------------------------- InstagramBotManager
\* The answers of client.login that one invocation of InstagramBotManager.login
\* consumes, in call order.  With a saved session file the first attempt sits in
\* an inner try whose `except Exception` calls client.login again.
auth_calls(fileExists, loadOk, r1, r2) ==
    IF fileExists /\ loadOk /\ r1 # "ok"
    THEN <<r1, r2>>
    ELSE <<r1>>

\* login that records the login state before the client has answered
bot_login_eager(bot, username, fileExists, loadOk, r1, r2) ==
    LET auth == auth_calls(fileExists, loadOk, r1, r2)
        last == auth[Len(auth)]
        b0 == [bot EXCEPT !.session_file = username, !.is_logged_in = TRUE,
                          !.username = username]
    IN  IF last = "ok"
        THEN [bot |-> b0, raised |-> 0, success |-> TRUE, challenge |-> FALSE,
              auth |-> auth, dumped |-> TRUE]
        ELSE IF last \in {"challenge", "resolve_error"}
        THEN [bot |-> b0, raised |-> 0, success |-> FALSE, challenge |-> TRUE,
              auth |-> auth, dumped |-> FALSE]
        ELSE IF last = "login_required"
        THEN [bot |-> b0, raised |-> 401, success |-> FALSE, challenge |-> FALSE,
              auth |-> auth, dumped |-> FALSE]
        ELSE [bot |-> b0, raised |-> 500, success |-> FALSE, challenge |-> FALSE,
              auth |-> auth, dumped |-> FALSE]

\* InstagramBotManager.login: the runner it leaves, what it returns or raises,
\* the client.login answers it received, and whether dump_settings ran
bot_login(bot, username, fileExists, loadOk, r1, r2) ==
    LET auth == auth_calls(fileExists, loadOk, r1, r2)
        last == auth[Len(auth)]
        b0 == [bot EXCEPT !.session_file = username]
    IN  IF last = "ok"
        THEN [bot |-> [b0 EXCEPT !.is_logged_in = TRUE, !.username = username],
              raised |-> 0, success |-> TRUE, challenge |-> FALSE,
              auth |-> auth, dumped |-> TRUE]
        ELSE IF last \in {"challenge", "resolve_error"}
        THEN [bot |-> b0, raised |-> 0, success |-> FALSE, challenge |-> TRUE,
              auth |-> auth, dumped |-> FALSE]
        ELSE IF last = "login_required"
        THEN [bot |-> b0, raised |-> 401, success |-> FALSE, challenge |-> FALSE,
              auth |-> auth, dumped |-> FALSE]
        ELSE [bot |-> b0, raised |-> 500, success |-> FALSE, challenge |-> FALSE,
              auth |-> auth, dumped |-> FALSE]

MessageResult(username, success, error) ==
    [username |-> username, success |-> success, error |-> error]

\* send_message without its `if not self.is_logged_in` guard
send_message_unguarded(bot, username, lk, dl) ==
    IF lk = "missing"
    THEN [result |-> MessageResult(username, FALSE, <<"User not found">>),
          calls |-> << <<"lookup", lk>> >>]
    ELSE IF dl = "ok"
    THEN [result |-> MessageResult(username, TRUE, None),
          calls |-> << <<"lookup", lk>>, <<"deliver", dl>> >>]
    ELSE [result |-> MessageResult(username, FALSE, <<"Failed to send message: ", dl>>),
          calls |-> << <<"lookup", lk>>, <<"deliver", dl>> >>]

\* send_message that calls direct_send a second time when the first one raised
send_message_retry(bot, username, lk, dl) ==
    IF ~bot.is_logged_in
    THEN [result |-> MessageResult(username, FALSE, <<"Not logged in">>),
          calls |-> <<>>]
    ELSE IF lk = "missing"
    THEN [result |-> MessageResult(username, FALSE, <<"User not found">>),
          calls |-> << <<"lookup", lk>> >>]
    ELSE IF dl = "ok"
    THEN [result |-> MessageResult(username, TRUE, None),
          calls |-> << <<"lookup", lk>>, <<"deliver", dl>> >>]
    ELSE [result |-> MessageResult(username, FALSE, <<"Failed to send message: ", dl>>),
          calls |-> << <<"lookup", lk>>, <<"deliver", dl>>, <<"deliver", dl>> >>]

\* send_message that reports a delivery error without the text of the error
send_message_generic(bot, username, lk, dl) ==
    IF ~bot.is_logged_in
    THEN [result |-> MessageResult(username, FALSE, <<"Not logged in">>),
          calls |-> <<>>]
    ELSE IF lk = "missing"
    THEN [result |-> MessageResult(username, FALSE, <<"User not found">>),
          calls |-> << <<"lookup", lk>> >>]
    ELSE IF dl = "ok"
    THEN [result |-> MessageResult(username, TRUE, None),
          calls |-> << <<"lookup", lk>>, <<"deliver", dl>> >>]
    ELSE [result |-> MessageResult(username, FALSE, <<"Failed to send message">>),
          calls |-> << <<"lookup", lk>>, <<"deliver", dl>> >>]

\* InstagramBotManager.send_message (with get_user_id): the MessageResult and
\* the client calls made, each with the client's answer
send_message(bot, username, lk, dl) ==
    IF ~bot.is_logged_in
    THEN [result |-> MessageResult(username, FALSE, <<"Not logged in">>),
          calls |-> <<>>]
    ELSE IF lk = "missing"
    THEN [result |-> MessageResult(username, FALSE, <<"User not found">>),
          calls |-> << <<"lookup", lk>> >>]
    ELSE IF dl = "ok"
    THEN [result |-> MessageResult(username, TRUE, None),
          calls |-> << <<"lookup", lk>>, <<"deliver", dl>> >>]
    ELSE [result |-> MessageResult(username, FALSE, <<"Failed to send message: ", dl>>),
          calls |-> << <<"lookup", lk>>, <<"deliver", dl>> >>]

\* random.uniform(delay_range[0], delay_range[1]), on whole seconds
DelaySamples(delay_range) ==
    IF Len(delay_range) < 2
    THEN {0}
    ELSE Min(delay_range[1], delay_range[2]) .. Max(delay_range[1], delay_range[2])

NoBot == 0                                \* no runner is held

IdleBatch ==
    [pc |-> "idle", sid |-> NoCookie, bot |-> NoBot, usernames |-> <<>>, message |-> "",
     delay_range |-> <<>>, results |-> <<>>, trace |-> <<>>, delays |-> <<>>,
     code |-> 0, doc_user |-> NoUser]

\* the loop iteration that ends the batch at the first failed item
batch_iteration_abort(b, bot, lk, dl, d) ==
    LET i == Len(b.results) + 1
        sm == send_message(bot, b.usernames[i], lk, dl)
        b1 == [b EXCEPT !.results = Append(@, sm.result),
                        !.trace = Append(@, [logged_in |-> bot.is_logged_in,
                                             calls |-> sm.calls])]
    IN  IF i < Len(b.usernames) /\ sm.result.success
        THEN IF Len(b.delay_range) < 2
             THEN [b1 EXCEPT !.pc = "raised"]
             ELSE [b1 EXCEPT !.pc = "sleeping", !.delays = Append(@, d)]
        ELSE [b1 EXCEPT !.pc = "returned"]

\* the loop iteration that also waits after the last item
batch_iteration_wait_after_last(b, bot, lk, dl, d) ==
    LET i == Len(b.results) + 1
        sm == send_message(bot, b.usernames[i], lk, dl)
        b1 == [b EXCEPT !.results = Append(@, sm.result),
                        !.trace = Append(@, [logged_in |-> bot.is_logged_in,
                                             calls |-> sm.calls])]
    IN  IF Len(b.delay_range) < 2
        THEN [b1 EXCEPT !.pc = "raised"]
        ELSE IF i < Len(b.usernames)
        THEN [b1 EXCEPT !.pc = "sleeping", !.delays = Append(@, d)]
        ELSE [b1 EXCEPT !.pc = "returned", !.delays = Append(@, d)]

\* the loop iteration that waits again and again before the item after the
\* first: its loop does not advance
batch_iteration_stuck(b, bot, lk, dl, d) ==
    IF Len(b.results) >= 1
    THEN [b EXCEPT !.pc = "sleeping"]
    ELSE LET sm == send_message(bot, b.usernames[1], lk, dl)
             b1 == [b EXCEPT !.results = Append(@, sm.result),
                             !.trace = Append(@, [logged_in |-> bot.is_logged_in,
                                                  calls |-> sm.calls])]
         IN  IF 1 < Len(b.usernames)
             THEN IF Len(b.delay_range) < 2
                  THEN [b1 EXCEPT !.pc = "raised"]
                  ELSE [b1 EXCEPT !.pc = "sleeping", !.delays = Append(@, d)]
             ELSE [b1 EXCEPT !.pc = "returned"]

\* the loop iteration whose wait is a time.sleep: it keeps the event loop
batch_iteration_blocking(b, bot, lk, dl, d) ==
    LET i == Len(b.results) + 1
        sm == send_message(bot, b.usernames[i], lk, dl)
        b1 == [b EXCEPT !.results = Append(@, sm.result),
                        !.trace = Append(@, [logged_in |-> bot.is_logged_in,
                                             calls |-> sm.calls])]
    IN  IF i < Len(b.usernames)
        THEN IF Len(b.delay_range) < 2
             THEN [b1 EXCEPT !.pc = "raised"]
             ELSE [b1 EXCEPT !.pc = "blocked", !.delays = Append(@, d)]
        ELSE [b1 EXCEPT !.pc = "returned"]

\* one iteration of the for loop of send_messages_batch, up to its sleep, its
\* IndexError on delay_range, or the end of the loop
batch_iteration(b, bot, lk, dl, d) ==
    LET i == Len(b.results) + 1
        sm == send_message(bot, b.usernames[i], lk, dl)
        b1 == [b EXCEPT !.results = Append(@, sm.result),
                        !.trace = Append(@, [logged_in |-> bot.is_logged_in,
                                             calls |-> sm.calls])]
    IN  IF i < Len(b.usernames)
        THEN IF Len(b.delay_range) < 2
             THEN [b1 EXCEPT !.pc = "raised"]
             ELSE [b1 EXCEPT !.pc = "sleeping", !.delays = Append(@, d)]
        ELSE [b1 EXCEPT !.pc = "returned"]

\* send_messages_batch without its up-front `if not self.is_logged_in` return
send_messages_batch_noshortcut(b, bot, lk, dl, d) ==
    IF b.usernames = <<>>
    THEN [b EXCEPT !.pc = "returned"]
    ELSE batch_iteration(b, bot, lk, dl, d)

\* InstagramBotManager.send_messages_batch from its call to its first sleep
send_messages_batch(b, bot, lk, dl, d) ==
    IF ~bot.is_logged_in
    THEN [b EXCEPT !.pc = "returned",
                   !.results = [k \in 1..Len(b.usernames) |->
                        MessageResult(b.usernames[k], FALSE, <<"Not logged in">>)]]
    ELSE IF b.usernames = <<>>
    THEN [b EXCEPT !.pc = "returned"]
    ELSE batch_iteration(b, bot, lk, dl, d)

\* a strip() that leaves the message as it is
strip_nothing(message) == message

\* str.strip() of the request's message
strip(message) == IF message = " " THEN "" ELSE message

\* ------------------------------------- the command-line runner: its inputs

\* the modules that config_bot.py imports by name (json, time, random, logging;
\* typing and instagrapi are imported with from ... import)
config_bot_imports == {"json", "time", "random", "logging"}

\* the credentials of config.json: none, the username alone, or both
Credentials == {"none", "username", "both"}

\* the lines a usernames file may hold
Lines == {"carol", "dave", "#skip", ""}
LineLists == UNION {[1..n -> Lines] : n \in 0..MaxHandles}

\* what the operator may type at the prompt
Answers == {"y", "Y ", "n", ""}

\* one outcome per item of a list: the lookup fails, the delivery fails, or the
\* message is delivered
ItemOutcomes == {"sent", "notfound", "fail"}
OutcomeLists == [1..MaxHandles -> ItemOutcomes]

\* the steps of run_bot.main, in the order of its text
RunOrder == <<"login", "load", "confirm", "send", "save">>

\* the run before it starts: no file, nothing typed, nothing done
IdleCli ==
    [pc |-> "start", config_exists |-> FALSE, usernames_exists |-> FALSE,
     credentials |-> "none", session_file |-> FALSE, lines |-> <<>>,
     answer |-> "", auth |-> "none", logged_in |-> FALSE, steps |-> <<>>,
     usernames |-> <<>>, delivered |-> <<>>, waits |-> 0,
     results |-> <<>>, saved |-> FALSE]

\* ---------------------------------------------------------- API routes
\* resp is the response delivered by the step just taken, with what the
\* request saw: the registry before it (pre) and, for a runner method called
\* directly, the runner before it (bot_pre)
NoResp ==
    [op |-> "none", sid |-> NoCookie, req |-> 0, code |-> 0, success |-> FALSE,
     challenge |-> FALSE, auth |-> <<>>, found |-> FALSE, is_logged_in |-> FALSE,
     username |-> NoUser, last_activity |-> NoTime, listed |-> {}, pre |-> << >>,
     bot_pre |-> NewBot, raised |-> FALSE, infos |-> <<>>, text |-> <<>>]

Init ==
    /\ now = 0
    /\ sessions = << >>
    /\ bots = << >>
    /\ nextToken = 1
    /\ session_files = {}
    /\ batches = [r \in Requests |-> IdleBatch]
    /\ lookups = [r \in Requests |-> IdleLookup]
    /\ cli = IdleCli
    /\ resp = NoResp

\* the clock advances between two handler steps
Tick(d) ==
    /\ now + d <= MaxTime
    /\ now' = now + d
    /\ resp' = [NoResp EXCEPT !.op = "tick"]
    /\ UNCHANGED <<cli, lookups, sessions, bots, nextToken, session_files, batches>>

\* the registry the /api/login route leaves, given what bot_manager.login did
login_registry(reg, sid, L) ==
    IF L.raised # 0 THEN reg               \* except HTTPException as e: raise e
    ELSE IF L.success THEN reg
    ELSE IF L.challenge THEN reg
    ELSE delete_session(reg, sid)          \* Remove session if login failed

\* POST /api/login
Login(u, loadOk, r1, r2) ==
    /\ nextToken <= MaxSessions
    /\ LET sid == nextToken
           bm == new_bot_manager(bots)
           heap == construct(bots, bm)
           g == get_session(create_session(sessions, sid, u, now, bm), sid, now)
           L == bot_login(heap[g.reg[sid].bot_manager], u, u \in session_files,
                          loadOk, r1, r2)
       IN  /\ sessions' = login_registry(g.reg, sid, L)
           /\ bots' = [heap EXCEPT ![g.reg[sid].bot_manager] = L.bot]
           /\ session_files' = IF L.dumped THEN session_files \cup {u}
                                           ELSE session_files
           /\ resp' = [NoResp EXCEPT !.op = "login", !.sid = sid,
                          !.code = IF L.raised # 0 THEN L.raised ELSE 200,
                          !.success = L.success, !.challenge = L.challenge,
                          !.auth = L.auth, !.username = u, !.pre = sessions]
    /\ nextToken' = nextToken + 1
    /\ UNCHANGED <<cli, lookups, now, batches>>

\* a logout that clears the login flag and keeps the identity
bot_logout_flag_only(bot) == [bot EXCEPT !.is_logged_in = FALSE]

\* what the logout route does to the runner of the session
bot_logout(bot) == [bot EXCEPT !.is_logged_in = FALSE, !.username = NoUser]

\* POST /api/logout
Logout(cookie) ==
    /\ LET g == get_current_session(sessions, cookie, now)
       IN  IF g.found
           THEN /\ bots' = [bots EXCEPT ![g.reg[cookie].bot_manager] =
                                              bot_logout(@)]
                /\ sessions' = delete_session(g.reg, cookie)
                /\ resp' = [NoResp EXCEPT !.op = "logout", !.sid = cookie,
                               !.code = 200, !.success = TRUE, !.found = TRUE,
                               !.pre = sessions]
           ELSE /\ bots' = bots
                /\ sessions' = g.reg
                /\ resp' = [NoResp EXCEPT !.op = "logout", !.sid = cookie,
                               !.code = 200, !.pre = sessions]
    /\ UNCHANGED <<cli, lookups, now, nextToken, session_files, batches>>

\* GET /api/status
Status(cookie) ==
    /\ LET g == get_current_session(sessions, cookie, now)
       IN  /\ sessions' = g.reg
           /\ resp' = IF g.found
                      THEN [NoResp EXCEPT !.op = "status", !.sid = cookie,
                               !.code = 200, !.found = TRUE,
                               !.is_logged_in =
                                   bots[g.reg[cookie].bot_manager].is_logged_in,
                               !.username =
                                   bots[g.reg[cookie].bot_manager].username,
                               !.last_activity = g.reg[cookie].last_activity,
                               !.pre = sessions]
                      ELSE [NoResp EXCEPT !.op = "status", !.sid = cookie,
                               !.code = 200, !.pre = sessions]
    /\ UNCHANGED <<cli, lookups, now, bots, nextToken, session_files, batches>>

\* GET /api/results: 401 without a session, else the latest results document
\* written under the session's username, if there is one (success)
GetResults(cookie) ==
    /\ LET g == get_current_session(sessions, cookie, now)
       IN  /\ sessions' = g.reg
           /\ resp' = IF g.found
                      THEN [NoResp EXCEPT !.op = "results", !.sid = cookie,
                               !.code = 200, !.found = TRUE,
                               !.username = g.reg[cookie].username,
                               !.success =
                                   \E r \in Requests :
                                       /\ batches[r].pc = "done"
                                       /\ batches[r].doc_user =
                                              g.reg[cookie].username,
                               !.pre = sessions]
                      ELSE [NoResp EXCEPT !.op = "results", !.sid = cookie,
                               !.code = 401, !.pre = sessions]
    /\ UNCHANGED <<cli, lookups, now, bots, nextToken, session_files, batches>>

\* GET /api/sessions
GetActiveSessions ==
    /\ sessions' = get_active_sessions(sessions, now)
    /\ resp' = [NoResp EXCEPT !.op = "sessions", !.code = 200,
                   !.infos = session_infos(sessions'),
                   !.listed = {i.session_id :
                                  i \in Range(session_infos(sessions'))},
                   !.pre = sessions]
    /\ UNCHANGED <<cli, lookups, now, bots, nextToken, session_files, batches>>

\* POST /api/cleanup-sessions
CleanupSessions ==
    /\ sessions' = cleanup_expired_sessions(sessions, now)
    /\ resp' = [NoResp EXCEPT !.op = "cleanup", !.code = 200, !.pre = sessions]
    /\ UNCHANGED <<cli, lookups, now, bots, nextToken, session_files, batches>>

\* the end of the route that reads the registry entry itself, without
\* get_session's expiry check
finish_request_peek(b, reg, t) ==
    IF b.pc = "returned"
    THEN [batch |-> [b EXCEPT !.pc = "done", !.code = 200,
                        !.doc_user = IF b.sid \in DOMAIN reg
                                     THEN reg[b.sid].username
                                     ELSE "unknown"],
          reg |-> reg]
    ELSE IF b.pc = "raised"
    THEN [batch |-> [b EXCEPT !.pc = "failed", !.code = 500], reg |-> reg]
    ELSE [batch |-> b, reg |-> reg]

\* the send-messages route after send_messages_batch returned or raised: the
\* second get_current_session, the results document, the response
finish_request(b, reg, t) ==
    IF b.pc = "returned"
    THEN LET g == get_current_session(reg, b.sid, t)
         IN  [batch |-> [b EXCEPT !.pc = "done", !.code = 200,
                            !.doc_user = IF g.found THEN g.reg[b.sid].username
                                                    ELSE "unknown"],
              reg |-> g.reg]
    ELSE IF b.pc = "raised"
    THEN [batch |-> [b EXCEPT !.pc = "failed", !.code = 500], reg |-> reg]
    ELSE [batch |-> b, reg |-> reg]

SendResp(r, b, pre) ==
    IF b.pc = "sleeping"
    THEN [NoResp EXCEPT !.op = "sleep", !.req = r, !.sid = b.sid, !.pre = pre]
    ELSE [NoResp EXCEPT !.op = "send", !.req = r, !.sid = b.sid, !.code = b.code,
             !.success = (b.code = 200), !.pre = pre]

\* POST /api/send-messages, from the request to its first sleep or its response
SendMessages(r, cookie, usernames, message, delay_range, lk, dl, d) ==
    /\ batches[r].pc = "idle"
    /\ \A q \in 1..(r - 1) : batches[q].pc # "idle"
    /\ d \in DelaySamples(delay_range)
    /\ LET m == get_current_bot_manager(sessions, cookie, now)
           rej == [IdleBatch EXCEPT !.sid = cookie, !.pc = "rejected"]
           bm == IF m.found THEN m.reg[cookie].bot_manager ELSE NoBot
           b0 == [IdleBatch EXCEPT !.sid = cookie, !.bot = bm,
                     !.usernames = usernames,
                     !.message = message, !.delay_range = delay_range]
       IN  IF ~m.found \/ ~bots[bm].is_logged_in
           THEN /\ batches' = [batches EXCEPT ![r] = [rej EXCEPT !.code = 401]]
                /\ sessions' = m.reg
                /\ resp' = SendResp(r, batches'[r], sessions)
           ELSE IF usernames = <<>> \/ strip(message) = ""
           THEN /\ batches' = [batches EXCEPT ![r] = [rej EXCEPT !.code = 400]]
                /\ sessions' = m.reg
                /\ resp' = SendResp(r, batches'[r], sessions)
           ELSE LET f == finish_request(
                            send_messages_batch(b0, bots[bm], lk, dl, d),
                            m.reg, now)
                IN  /\ batches' = [batches EXCEPT ![r] = f.batch]
                    /\ sessions' = f.reg
                    /\ resp' = SendResp(r, f.batch, sessions)
    /\ UNCHANGED <<cli, lookups, now, bots, nextToken, session_files>>

\* asyncio.sleep returns: the next iteration of the loop, to the next sleep or
\* to the response
BatchWake(r, lk, dl, d) ==
    /\ batches[r].pc = "sleeping"
    /\ d \in DelaySamples(batches[r].delay_range)
    /\ LET b == batches[r]
           f == finish_request(batch_iteration(b, bots[b.bot], lk, dl, d),
                               sessions, now)
       IN  /\ batches' = [batches EXCEPT ![r] = f.batch]
           /\ sessions' = f.reg
           /\ resp' = SendResp(r, f.batch, sessions)
    /\ UNCHANGED <<cli, lookups, now, bots, nextToken, session_files>>

\* ------------------------------------------------------- specifications
\* The client answers a login can consume: loadOk is read only when the session
\* file exists, r2 only when a second client.login is made
LoginInputs(u, loadOk, r1, r2) ==
    /\ (u \notin session_files => loadOk)
    /\ (Len(auth_calls(u \in session_files, loadOk, r1, r2)) < 2 => r2 = "ok")

\* no runner has been constructed: the next login is the first
FirstLogin == bots = << >>
\* no send-messages request has been made: the next one is the first
FirstRequest == \A q \in Requests : batches[q].pc = "idle"

\* The API along one session: the first login, its logout, its expiry and the
\* sweep, and the first send-messages request, interleaved in every way
Next ==
    \/ \E d \in TickSteps : Tick(d)
    \/ \E u \in Users, loadOk \in BOOLEAN, r1, r2 \in AuthOutcomes :
          /\ FirstLogin
          /\ LoginInputs(u, loadOk, r1, r2)
          /\ Login(u, loadOk, r1, r2)
    \/ \E cookie \in Cookies : Logout(cookie)
    \/ CleanupSessions
    \/ \E r \in Requests :
          /\ FirstRequest
          /\ \E cookie \in Cookies, usernames \in HandleLists,
                message \in Messages, delay_range \in DelayRanges,
                lk \in LookupOutcomes, dl \in DeliverOutcomes :
                \E d \in DelaySamples(delay_range) :
                   SendMessages(r, cookie, usernames, message, delay_range,
                                lk, dl, d)
    \/ \E r \in Requests :
          /\ batches[r].pc = "sleeping"
          /\ \E lk \in LookupOutcomes, dl \in DeliverOutcomes,
                d \in DelaySamples(batches[r].delay_range) :
                BatchWake(r, lk, dl, d)

Spec == Init /\ [][Next]_vars

\* The session registry under MaxSessions logins, without batches
RegistryNext ==
    \/ \E d \in TickSteps : Tick(d)
    \/ \E u \in Users, loadOk \in BOOLEAN, r1, r2 \in AuthOutcomes :
          LoginInputs(u, loadOk, r1, r2) /\ Login(u, loadOk, r1, r2)
    \/ \E cookie \in Cookies : Logout(cookie)
    \/ \E cookie \in Cookies : Status(cookie)
    \/ GetActiveSessions
    \/ CleanupSessions

RegistrySpec == Init /\ [][RegistryNext]_vars

\* One InstagramBotManager (the runner of token 1) whose methods are called
\* directly, in any order and in any login state
RunnerInit ==
    /\ now = 0
    /\ sessions = << >>
    /\ bots = (1 :> NewBot)
    /\ nextToken = 2
    /\ session_files = {}
    /\ batches = [r \in Requests |-> IdleBatch]
    /\ lookups = [r \in Requests |-> IdleLookup]
    /\ cli = IdleCli
    /\ resp = NoResp

\* bot_manager.login(username, password)
RunnerLogin(u, loadOk, r1, r2) ==
    /\ LET L == bot_login(bots[1], u, u \in session_files, loadOk, r1, r2)
       IN  /\ bots' = [bots EXCEPT ![1] = L.bot]
           /\ session_files' = IF L.dumped THEN session_files \cup {u}
                                           ELSE session_files
           /\ resp' = [NoResp EXCEPT !.op = "login", !.sid = 1,
                          !.code = IF L.raised # 0 THEN L.raised ELSE 200,
                          !.success = L.success, !.challenge = L.challenge,
                          !.auth = L.auth, !.username = u, !.bot_pre = bots[1]]
    /\ UNCHANGED <<cli, lookups, now, sessions, nextToken, batches>>

\* bot_manager.is_logged_in = False; bot_manager.username = None
RunnerLogout ==
    /\ bots' = [bots EXCEPT ![1] = bot_logout(@)]
    /\ resp' = [NoResp EXCEPT !.op = "logout", !.sid = 1, !.bot_pre = bots[1]]
    /\ UNCHANGED <<cli, lookups, now, sessions, nextToken, session_files, batches>>

\* bot_manager.send_messages_batch(usernames, message, delay_range), to its
\* first sleep or its end
RunnerBatch(r, usernames, delay_range, lk, dl, d) ==
    /\ batches[r].pc = "idle"
    /\ \A q \in 1..(r - 1) : batches[q].pc # "idle"
    /\ d \in DelaySamples(delay_range)
    /\ LET b0 == [IdleBatch EXCEPT !.sid = 1, !.bot = 1, !.usernames = usernames,
                     !.message = "hi", !.delay_range = delay_range]
       IN  batches' = [batches EXCEPT ![r] =
                          send_messages_batch(b0, bots[1], lk, dl, d)]
    /\ resp' = [NoResp EXCEPT !.op = "batch", !.sid = 1, !.req = r,
                   !.bot_pre = bots[1]]
    /\ UNCHANGED <<cli, lookups, now, sessions, bots, nextToken, session_files>>

\* asyncio.sleep returns inside send_messages_batch
RunnerWake(r, lk, dl, d) ==
    /\ batches[r].pc = "sleeping"
    /\ d \in DelaySamples(batches[r].delay_range)
    /\ batches' = [batches EXCEPT ![r] =
                      batch_iteration(@, bots[1], lk, dl, d)]
    /\ resp' = [NoResp EXCEPT !.op = "wake", !.sid = 1, !.req = r,
                   !.bot_pre = bots[1]]
    /\ UNCHANGED <<cli, lookups, now, sessions, bots, nextToken, session_files>>

\* the login and the logout of the runner, called directly
RunnerLoginNext ==
    \/ \E u \in Users, loadOk \in BOOLEAN, r1, r2 \in AuthOutcomes :
          LoginInputs(u, loadOk, r1, r2) /\ RunnerLogin(u, loadOk, r1, r2)
    \/ RunnerLogout

RunnerLoginSpec == RunnerInit /\ [][RunnerLoginNext]_vars

\* the runner after bot_login succeeded for u
LoggedInBot(u) ==
    [is_logged_in |-> TRUE, username |-> u, session_file |-> u]

\* a runner in either login state
BatchInit ==
    /\ now = 0
    /\ sessions = << >>
    /\ \E u \in Users :
          \/ bots = (1 :> NewBot) /\ session_files = {}
          \/ bots = (1 :> LoggedInBot(u)) /\ session_files = {u}
    /\ nextToken = 2
    /\ batches = [r \in Requests |-> IdleBatch]
    /\ lookups = [r \in Requests |-> IdleLookup]
    /\ cli = IdleCli
    /\ resp = NoResp

\* send_messages_batch called once, directly, on a runner in either login
\* state, with the runner logged out at any moment
RunnerNext ==
    \/ RunnerLogout
    \/ \E r \in Requests :
          /\ FirstRequest
          /\ \E usernames \in HandleLists, delay_range \in DelayRanges,
                lk \in LookupOutcomes, dl \in DeliverOutcomes :
                \E d \in DelaySamples(delay_range) :
                   RunnerBatch(r, usernames, delay_range, lk, dl, d)
    \/ \E r \in Requests :
          /\ batches[r].pc = "sleeping"
          /\ \E lk \in LookupOutcomes, dl \in DeliverOutcomes,
                d \in DelaySamples(batches[r].delay_range) :
                RunnerWake(r, lk, dl, d)

RunnerSpec == BatchInit /\ [][RunnerNext]_vars

\* the requests of the specification of two sessions: one batch over two
\* handles that the client accepts, with a [min, max] delay range
PairLists == {<<"carol", "dave">>}
PairAuthOutcomes == {"ok", "challenge", "error"}

\* Several sessions side by side: MaxSessions logins, their logouts and expiry,
\* the sweep and the listing, and one batch that sleeps while the other
\* sessions act
SessionsNext ==
    \/ \E d \in TickSteps : Tick(d)
    \/ \E u \in Users, r1 \in PairAuthOutcomes : Login(u, TRUE, r1, r1)
    \/ \E cookie \in Tokens : Logout(cookie)
    \/ CleanupSessions
    \/ GetActiveSessions
    \/ \E r \in Requests :
          /\ FirstRequest
          /\ \E cookie \in Tokens, usernames \in PairLists,
                d \in DelaySamples(<<1, 2>>) :
                SendMessages(r, cookie, usernames, "hi", <<1, 2>>,
                             "found", "ok", d)
    \/ \E r \in Requests :
          /\ batches[r].pc = "sleeping"
          /\ \E d \in DelaySamples(batches[r].delay_range) :
                BatchWake(r, "found", "ok", d)

SessionsSpec == Init /\ [][SessionsNext]_vars

\* session_manager.create_session(username)
CreateSession(u) ==
    /\ nextToken <= MaxSessions
    /\ LET bm == new_bot_manager(bots)
       IN  /\ sessions' = create_session(sessions, nextToken, u, now, bm)
           /\ bots' = construct(bots, bm)
    /\ resp' = [NoResp EXCEPT !.op = "create", !.sid = nextToken,
                   !.username = u, !.pre = sessions]
    /\ nextToken' = nextToken + 1
    /\ UNCHANGED <<cli, lookups, now, session_files, batches>>

\* session_manager.get_session(session_id)
GetSession(sid) ==
    /\ LET g == get_session(sessions, sid, now)
       IN  /\ sessions' = g.reg
           /\ resp' = [NoResp EXCEPT !.op = "get", !.sid = sid,
                          !.found = g.found, !.pre = sessions]
    /\ UNCHANGED <<cli, lookups, now, bots, nextToken, session_files, batches>>

\* session_manager.update_activity(session_id)
UpdateActivity(sid) ==
    /\ LET U == update_activity_call(sessions, sid, now)
       IN  /\ sessions' = U.reg
           /\ resp' = [NoResp EXCEPT !.op = "update", !.sid = sid,
                          !.raised = U.raised, !.pre = sessions]
    /\ UNCHANGED <<cli, lookups, now, bots, nextToken, session_files, batches>>

\* session_manager.delete_session(session_id)
DeleteSession(sid) ==
    /\ LET D == delete_session_call(sessions, sid)
       IN  /\ sessions' = D.reg
           /\ resp' = [NoResp EXCEPT !.op = "delete", !.sid = sid,
                          !.raised = D.raised, !.pre = sessions]
    /\ UNCHANGED <<cli, lookups, now, bots, nextToken, session_files, batches>>

\* The SessionManager alone, its methods called directly in any order, with
\* tokens that are in the registry and tokens that are not
ManagerNext ==
    \/ \E d \in TickSteps : Tick(d)
    \/ \E u \in Users : CreateSession(u)
    \/ \E sid \in Tokens : GetSession(sid)
    \/ \E sid \in Tokens : UpdateActivity(sid)
    \/ \E sid \in Tokens : DeleteSession(sid)
    \/ CleanupSessions
    \/ GetActiveSessions

ManagerSpec == Init /\ [][ManagerNext]_vars

\* The authenticated routes of one session: the first login, then status,
\* results and the first send-messages request at any time, with the token of
\* the session, with another token and with none
AccessNext ==
    \/ \E d \in TickSteps : Tick(d)
    \/ \E u \in Users, r1 \in PairAuthOutcomes :
          FirstLogin /\ Login(u, TRUE, r1, r1)
    \/ \E cookie \in Cookies : Status(cookie)
    \/ \E cookie \in Cookies : GetResults(cookie)
    \/ \E r \in Requests :
          /\ FirstRequest
          /\ \E cookie \in Cookies, usernames \in PairLists,
                d \in DelaySamples(<<1, 2>>) :
                SendMessages(r, cookie, usernames, "hi", <<1, 2>>,
                             "found", "ok", d)
    \/ \E r \in Requests :
          /\ batches[r].pc = "sleeping"
          /\ \E d \in DelaySamples(batches[r].delay_range) :
                BatchWake(r, "found", "ok", d)

AccessSpec == Init /\ [][AccessNext]_vars

\* the batch is in a wait that does not give the event loop back; `await
\* asyncio.sleep(delay)` gives it back, so batch_iteration never leaves a batch
\* here
holds_loop(b) == b.pc = "blocked"

\* no handler holds the event loop: the next handler can run
LoopFree == \A r \in Requests : ~holds_loop(batches[r])

\* no send-messages request has carried this token
FirstRequestOf(cookie) == \A q \in Requests : batches[q].sid # cookie

\* Sessions whose requests are in flight together: MaxSessions successful
\* logins, their logouts, the sweep and the listing, and MaxRequests batches,
\* one per session, that sleep at the same time, every handler running when the
\* event loop is free
ConcurrentNext ==
    \/ \E u \in Users : LoopFree /\ Login(u, TRUE, "ok", "ok")
    \/ \E cookie \in Tokens : LoopFree /\ Logout(cookie)
    \/ LoopFree /\ CleanupSessions
    \/ LoopFree /\ GetActiveSessions
    \/ \E r \in Requests, cookie \in Tokens, usernames \in PairLists :
          /\ LoopFree
          /\ FirstRequestOf(cookie)
          /\ SendMessages(r, cookie, usernames, "hi", <<1, 1>>,
                          "found", "ok", 1)
    \/ \E r \in Requests : LoopFree /\ BatchWake(r, "found", "ok", 1)

ConcurrentSpec == Init /\ [][ConcurrentNext]_vars

\* one handler's session_manager.get_session(session_id), or the second half
\* of a call that was suspended
GetSessionCall(r, sid) ==
    /\ lookups[r].pc \in {"idle", "expired"}
    /\ lookups[r].pc = "expired" => sid = lookups[r].sid
    /\ LET g == get_session_step(lookups[r], sessions, sid, now)
       IN  /\ lookups' = [lookups EXCEPT ![r] = g.lookup]
           /\ sessions' = g.reg
           /\ resp' = [NoResp EXCEPT !.op = "get", !.sid = sid, !.req = r,
                          !.found = g.lookup.found, !.pre = sessions]
    /\ UNCHANGED <<cli, now, bots, nextToken, session_files, batches>>

\* MaxRequests handlers that call get_session at any moment, for any token,
\* among creations, deletions and sweeps
RaceNext ==
    \/ \E d \in TickSteps : Tick(d)
    \/ \E u \in Users : CreateSession(u)
    \/ \E r \in Requests, sid \in Tokens : GetSessionCall(r, sid)
    \/ \E sid \in Tokens : DeleteSession(sid)
    \/ CleanupSessions

RaceSpec == Init /\ [][RaceNext]_vars

\* ------------------------------------------------- the command-line runner

\* ConfigInstagramBot.login: False without a username and a password; then
\* os.path.exists(session_file) is evaluated in a module that does not import
\* os, the NameError is caught by the except Exception of login, and login
\* returns False before any client call
ConfigInstagramBot_login(credentials, session_file, auth1, auth2) ==
    IF credentials # "both"
    THEN [ok |-> FALSE, calls |-> 0]
    ELSE IF "os" \notin config_bot_imports
    THEN [ok |-> FALSE, calls |-> 0]
    ELSE IF session_file /\ auth1 # "ok"
    THEN [ok |-> auth2 = "ok", calls |-> 2]
    ELSE [ok |-> auth1 = "ok", calls |-> 1]

\* the comprehension of load_usernames_from_file: the stripped lines that are
\* not blank and do not start with '#'
RECURSIVE load_usernames_from_file(_)
load_usernames_from_file(lines) ==
    IF lines = <<>>
    THEN <<>>
    ELSE LET rest == load_usernames_from_file(Tail(lines))
         IN  IF Head(lines) = "" \/ Head(lines) = "#skip"
             THEN rest
             ELSE <<Head(lines)>> \o rest

\* input(...).lower().strip()
lower_strip(answer) == IF answer = "Y " THEN "y" ELSE answer

\* results[username] = success on a dict kept as the sequence of its items in
\* insertion order: a key that is present keeps its place and takes the value
dict_set(results, username, success) ==
    IF \E k \in 1..Len(results) : results[k].username = username
    THEN [k \in 1..Len(results) |->
             IF results[k].username = username
             THEN [username |-> username, success |-> success]
             ELSE results[k]]
    ELSE Append(results, [username |-> username, success |-> success])

\* send_messages_to_list whose dict keeps the first outcome of a username
\* (results.setdefault(username, success))
RECURSIVE send_messages_to_list_first(_, _, _, _)
send_messages_to_list_first(logged_in, usernames, outs, n) ==
    IF ~logged_in \/ n = 0
    THEN [delivered |-> <<>>, waits |-> 0, results |-> <<>>]
    ELSE LET done == send_messages_to_list_first(logged_in, usernames, outs,
                                                 n - 1)
         IN  [delivered |-> done.delivered
                              \o (IF outs[n] # "notfound"
                                  THEN <<usernames[n]>> ELSE <<>>),
              waits |-> done.waits + (IF n < Len(usernames) THEN 1 ELSE 0),
              results |->
                  IF \E k \in 1..Len(done.results) :
                        done.results[k].username = usernames[n]
                  THEN done.results
                  ELSE dict_set(done.results, usernames[n], outs[n] = "sent")]

\* send_messages_to_list (ConfigInstagramBot and InstagramMessagingBot have
\* the same loop) after its first n items: nothing when not logged in; else
\* one send_message per username, a time.sleep after every item but the last,
\* and a dict that keeps the last outcome of each username
RECURSIVE send_messages_to_list(_, _, _, _)
send_messages_to_list(logged_in, usernames, outs, n) ==
    IF ~logged_in \/ n = 0
    THEN [delivered |-> <<>>, waits |-> 0, results |-> <<>>]
    ELSE LET done == send_messages_to_list(logged_in, usernames, outs, n - 1)
         IN  [delivered |-> done.delivered
                              \o (IF outs[n] # "notfound"
                                  THEN <<usernames[n]>> ELSE <<>>),
              waits |-> done.waits + (IF n < Len(usernames) THEN 1 ELSE 0),
              results |-> dict_set(done.results, usernames[n],
                                   outs[n] = "sent")]

\* run_bot.main on the files of c, with the answer typed at the prompt and the
\* behaviour of the client
main(c, answer, auth1, auth2, outs) ==
    LET env == [c EXCEPT !.pc = "ended", !.answer = answer,
                         !.auth = IF c.session_file /\ auth1 # "ok"
                                  THEN auth2 ELSE auth1]
        lg == ConfigInstagramBot_login(c.credentials, c.session_file,
                                       auth1, auth2)
        usernames == load_usernames_from_file(c.lines)
        sent == send_messages_to_list(lg.ok, usernames, outs,
                                      Len(usernames))
    IN  IF ~c.config_exists \/ ~c.usernames_exists
        THEN env
        ELSE IF ~lg.ok
        THEN [env EXCEPT !.steps = <<"login">>]
        ELSE IF usernames = <<>>
        THEN [env EXCEPT !.logged_in = TRUE, !.steps = <<"login", "load">>]
        ELSE IF lower_strip(answer) # "y"
        THEN [env EXCEPT !.logged_in = TRUE, !.usernames = usernames,
                         !.steps = <<"login", "load", "confirm">>]
        ELSE [env EXCEPT !.logged_in = TRUE, !.usernames = usernames,
                         !.steps = RunOrder,
                         !.delivered = sent.delivered, !.waits = sent.waits,
                         !.results = sent.results, !.saved = TRUE]

\* python run_bot.py
RunBot(answer, auth1, auth2, outs) ==
    /\ cli.pc = "start"
    /\ cli' = main(cli, answer, auth1, auth2, outs)
    /\ UNCHANGED <<now, sessions, bots, nextToken, session_files, batches,
                   lookups, resp>>

\* the directory in which run_bot.py is started: any config.json and
\* usernames.txt, present or not
CliInit ==
    /\ now = 0
    /\ sessions = <<>>
    /\ bots = <<>>
    /\ nextToken = 1
    /\ session_files = {}
    /\ batches = [r \in Requests |-> IdleBatch]
    /\ lookups = [r \in Requests |-> IdleLookup]
    /\ resp = NoResp
    /\ \E ce \in BOOLEAN, ue \in BOOLEAN, cr \in Credentials,
          sf \in BOOLEAN, ls \in LineLists :
          cli = [IdleCli EXCEPT !.config_exists = ce, !.usernames_exists = ue,
                                !.credentials = cr, !.session_file = sf,
                                !.lines = ls]

CliNext ==
    \E answer \in Answers, auth1 \in {"ok", "error"}, auth2 \in {"ok", "error"},
       outs \in OutcomeLists :
        RunBot(answer, auth1, auth2, outs)

CliSpec == CliInit /\ [][CliNext]_vars

\* ConfigInstagramBot("config.json").login() called on its own, as
\* config_bot.main does: a missing or unreadable config.json is the empty
\* configuration
ConfigLogin(auth1, auth2) ==
    /\ cli.pc = "start"
    /\ LET credentials == IF cli.config_exists THEN cli.credentials
                          ELSE "none"
           lg == ConfigInstagramBot_login(credentials, cli.session_file,
                                          auth1, auth2)
       IN  /\ cli' = [cli EXCEPT !.pc = "returned",
                                 !.credentials = credentials,
                                 !.auth = IF cli.session_file /\ auth1 # "ok"
                                          THEN auth2 ELSE auth1,
                                 !.logged_in = lg.ok,
                                 !.steps = <<"login">>]
           /\ resp' = [NoResp EXCEPT !.op = "config_login",
                                     !.success = lg.ok,
                                     !.is_logged_in = lg.ok]
    /\ UNCHANGED <<now, sessions, bots, nextToken, session_files, batches,
                   lookups>>

ConfigBotNext ==
    \E auth1 \in {"ok", "error"}, auth2 \in {"ok", "error"} :
        ConfigLogin(auth1, auth2)

ConfigBotSpec == CliInit /\ [][ConfigBotNext]_vars

\* InstagramMessagingBot.login: the saved session first when its file exists,
\* then a fresh login; every exception is caught and gives False
InstagramMessagingBot_login(session_file, auth1, auth2) ==
    IF session_file /\ auth1 # "ok"
    THEN [ok |-> auth2 = "ok", calls |-> 2]
    ELSE [ok |-> auth1 = "ok", calls |-> 1]

\* bot.login() of an InstagramMessagingBot
MessagingLogin(auth1, auth2) ==
    /\ cli.pc = "start"
    /\ cli.steps = <<>>
    /\ LET lg == InstagramMessagingBot_login(cli.session_file, auth1, auth2)
       IN  /\ cli' = [cli EXCEPT !.auth = IF cli.session_file /\ auth1 # "ok"
                                          THEN auth2 ELSE auth1,
                                 !.logged_in = lg.ok,
                                 !.steps = <<"login">>]
           /\ resp' = [NoResp EXCEPT !.op = "messaging_login",
                                     !.success = lg.ok,
                                     !.is_logged_in = lg.ok]
    /\ UNCHANGED <<now, sessions, bots, nextToken, session_files, batches,
                   lookups>>

\* what the client did for the items of a finished batch, item by item: the
\* lookup failed, the delivery failed, or the message was delivered
ClientBehaviour(trace) ==
    [i \in 1..MaxHandles |->
        IF i > Len(trace) \/ trace[i].calls = <<>>
        THEN "sent"
        ELSE IF trace[i].calls[1][2] = "missing"
        THEN "notfound"
        ELSE IF trace[i].calls[2][2] = "ok"
        THEN "sent"
        ELSE "fail"]

\* bot.send_messages_to_list(usernames, ...) on the list that batch r was
\* given, with a client that behaves for each item as it did for the batch
CliSendList(r) ==
    /\ cli.pc = "start"
    /\ batches[r].pc = "returned"
    /\ cli.logged_in = bots[batches[r].bot].is_logged_in
    /\ LET usernames == batches[r].usernames
           sent == send_messages_to_list(cli.logged_in, usernames,
                                         ClientBehaviour(batches[r].trace),
                                         Len(usernames))
       IN  /\ cli' = [cli EXCEPT !.pc = "sent", !.usernames = usernames,
                                 !.steps = Append(@, "send"),
                                 !.delivered = sent.delivered,
                                 !.waits = sent.waits,
                                 !.results = sent.results]
           /\ resp' = [NoResp EXCEPT !.op = "send_list", !.req = r]
    /\ UNCHANGED <<now, sessions, bots, nextToken, session_files, batches,
                   lookups>>

\* a backend runner in either login state and a command-line bot that has
\* not logged in yet
EquivInit ==
    /\ now = 0
    /\ sessions = << >>
    /\ \E u \in Users :
          \/ bots = (1 :> NewBot) /\ session_files = {}
          \/ bots = (1 :> LoggedInBot(u)) /\ session_files = {u}
    /\ nextToken = 2
    /\ batches = [r \in Requests |-> IdleBatch]
    /\ lookups = [r \in Requests |-> IdleLookup]
    /\ \E sf \in BOOLEAN : cli = [IdleCli EXCEPT !.session_file = sf]
    /\ resp = NoResp

\* the same list sent by the backend runner and then by the command-line bot
EquivNext ==
    \/ \E auth1 \in {"ok", "error"}, auth2 \in {"ok", "error"} :
          MessagingLogin(auth1, auth2)
    \/ \E r \in Requests :
          /\ FirstRequest
          /\ \E usernames \in HandleLists,
                lk \in LookupOutcomes, dl \in DeliverOutcomes :
                RunnerBatch(r, usernames, <<1, 1>>, lk, dl, 1)
    \/ \E r \in Requests, lk \in LookupOutcomes, dl \in DeliverOutcomes :
          RunnerWake(r, lk, dl, 1)
    \/ \E r \in Requests : CliSendList(r)

EquivSpec == EquivInit /\ [][EquivNext]_vars

\* One account whose send-messages requests overlap or follow each other:
\* the first login, its logout, and MaxRequests requests that may all carry
\* its token, each starting while the others sleep or after they ended
PacedNext ==
    \/ \E u \in Users : FirstLogin /\ Login(u, TRUE, "ok", "ok")
    \/ \E cookie \in Tokens : Logout(cookie)
    \/ \E r \in Requests, cookie \in Tokens, usernames \in HandleLists,
          lk \in LookupOutcomes, dl \in {"ok", "timeout"} :
          SendMessages(r, cookie, usernames, "hi", <<1, 1>>, lk, dl, 1)
    \/ \E r \in Requests, lk \in LookupOutcomes, dl \in {"ok", "timeout"} :
          BatchWake(r, lk, dl, 1)

PacedSpec == Init /\ [][PacedNext]_vars

\* One session and its one batch over two handles, with everything that can
\* happen to the session while the batch sleeps: logout, expiry, the sweep
DocNext ==
    \/ \E d \in TickSteps : Tick(d)
    \/ \E u \in Users : FirstLogin /\ Login(u, TRUE, "ok", "ok")
    \/ \E cookie \in Tokens : Logout(cookie)
    \/ CleanupSessions
    \/ \E r \in Requests, cookie \in Tokens, usernames \in PairLists :
          /\ FirstRequest
          /\ SendMessages(r, cookie, usernames, "hi", <<1, 1>>,
                          "found", "ok", 1)
    \/ \E r \in Requests : BatchWake(r, "found", "ok", 1)

DocSpec == Init /\ [][DocNext]_vars

\* the lines that the text of an upload request may hold, and the texts:
\* usernames_text.split('\n')
UploadLines == {"carol", " dave ", "#skip", " #note", "", "  "}
UploadTexts == UNION {[1..n -> UploadLines] : n \in 1..MaxHandles}

\* str.strip() of a line
line_strip(line) ==
    CASE line = " dave " -> "dave"
      [] line = " #note" -> "#note"
      [] line = "  " -> ""
      [] OTHER -> line

\* str.startswith('#')
startswith_hash(line) == line \in {"#skip", "#note"}

\* the list comprehension of upload_usernames: the stripped lines that are
\* not blank and, once stripped, do not start with '#'
RECURSIVE parse_usernames(_)
parse_usernames(text) ==
    IF text = <<>>
    THEN <<>>
    ELSE LET line == line_strip(Head(text))
             rest == parse_usernames(Tail(text))
         IN  IF line = "" \/ startswith_hash(line)
             THEN rest
             ELSE <<line>> \o rest

\* the body of upload_usernames: the HTTPException it raises inside its try
\* block (0 when none), the status its `except Exception` turns that into,
\* and the usernames it writes
upload_usernames(text) ==
    LET usernames == parse_usernames(text)
        raised == IF \A k \in 1..Len(text) : line_strip(text[k]) = ""
                  THEN 400
                  ELSE IF usernames = <<>> THEN 400 ELSE 0
    IN  [raised |-> raised,
         code |-> IF raised # 0 THEN 500 ELSE 200,
         usernames |-> usernames]

\* POST /api/upload-usernames
UploadUsernames(text) ==
    /\ LET u == upload_usernames(text)
       IN  /\ cli' = IF u.code = 200
                     THEN [cli EXCEPT !.usernames_exists = TRUE,
                                      !.lines = u.usernames]
                     ELSE cli
           /\ resp' = [NoResp EXCEPT !.op = "upload", !.code = u.code,
                                     !.success = (u.code = 200),
                                     !.text = text]
    /\ UNCHANGED <<now, sessions, bots, nextToken, session_files, batches,
                   lookups>>

\* upload requests, one after the other, on any usernames.txt
UploadNext == \E text \in UploadTexts : UploadUsernames(text)

UploadSpec == CliInit /\ [][UploadNext]_vars

\* one batch among the other requests of the service: logins of both users,
\* logouts, the sweep and the clock running past every expiry
LiveNext ==
    \/ \E d \in TickSteps : Tick(d)
    \/ \E u \in Users : Login(u, TRUE, "ok", "ok")
    \/ \E cookie \in Tokens : Logout(cookie)
    \/ CleanupSessions
    \/ \E r \in Requests, cookie \in Tokens, usernames \in PairLists :
          /\ FirstRequest
          /\ SendMessages(r, cookie, usernames, "hi", <<1, 1>>,
                          "found", "ok", 1)
    \/ \E r \in Requests : BatchWake(r, "found", "ok", 1)

\* a delay-wait ends and the event loop resumes the batch: some BatchWake step
WakeSome == \E r \in Requests : BatchWake(r, "found", "ok", 1)

\* LiveNext with every delay-wait completing: asyncio.sleep returns after its
\* delay and the event loop then resumes the coroutine
LiveSpec == Init /\ [][LiveNext]_vars /\ WF_vars(WakeSome)

\* ================================================================ claims
Last(q) == q[Len(q)]
Items(b) == 1..Len(b.trace)
\* the batch ran to the end of send_messages_batch
Returned(b) == b.pc \in {"returned", "done"}
\* the batch was left by an exception
Raised(b) == b.pc \in {"raised", "failed"}
LookupsOf(calls) == {k \in 1..Len(calls) : calls[k][1] = "lookup"}
DeliveriesOf(calls) == {k \in 1..Len(calls) : calls[k][1] = "deliver"}

\* C1: a send_message entered while is_logged_in is false makes no lookup and
\* no delivery call and returns no successful result, also for the items of a
\* batch that a logout overtook.
C1_NoSendWhileLoggedOut ==
    \A r \in Requests : \A i \in Items(batches[r]) :
        ~batches[r].trace[i].logged_in =>
            /\ batches[r].trace[i].calls = <<>>
            /\ ~batches[r].results[i].success

\* a batch whose first item was delivered and whose second item found the
\* runner logged out
C1_Witness ==
    \E r \in Requests :
        /\ Len(batches[r].trace) = 2
        /\ batches[r].trace[1].logged_in
        /\ batches[r].results[1].success
        /\ ~batches[r].trace[2].logged_in
        /\ batches[r].results[2].error = <<"Not logged in">>

\* C2: send_messages_batch called on a logged-out runner returns at once one
\* "Not logged in" failure per handle, in input order, having made no lookup,
\* no delivery and no delay.
C2_LoggedOutBatch ==
    (resp.op = "batch" /\ ~resp.bot_pre.is_logged_in) =>
        LET b == batches[resp.req]
        IN  /\ b.pc = "returned"
            /\ Len(b.results) = Len(b.usernames)
            /\ \A k \in 1..Len(b.usernames) :
                  b.results[k] =
                      MessageResult(b.usernames[k], FALSE, <<"Not logged in">>)
            /\ b.trace = <<>>
            /\ b.delays = <<>>

\* a logged-out runner answered a batch over two different handles
C2_Witness ==
    /\ resp.op = "batch"
    /\ ~resp.bot_pre.is_logged_in
    /\ Len(batches[resp.req].usernames) = 2
    /\ batches[resp.req].usernames[1] # batches[resp.req].usernames[2]
    /\ Len(batches[resp.req].results) = 2

\* C3: a batch started on a logged-in runner that returns, returns one result
\* per handle and result i names handle i, whatever items failed and whether or
\* not the runner was logged out during a wait; results are appended in input
\* order, and a batch given a [min, max] delay range is never left by an
\* exception.
C3_OneResultPerHandle ==
    \A r \in Requests :
        LET b == batches[r]
        IN  /\ Len(b.results) <= Len(b.usernames)
            /\ \A i \in 1..Len(b.results) : b.results[i].username = b.usernames[i]
            /\ Returned(b) => Len(b.results) = Len(b.usernames)
            /\ Len(b.delay_range) >= 2 => ~Raised(b)

\* a returned batch over two different handles whose first item failed and
\* whose runner was logged out during the wait
C3_Witness ==
    \E r \in Requests :
        /\ batches[r].pc = "done"
        /\ Len(batches[r].results) = 2
        /\ batches[r].usernames[1] # batches[r].usernames[2]
        /\ batches[r].trace[1].logged_in
        /\ ~batches[r].results[1].success
        /\ ~batches[r].trace[2].logged_in

\* the client call that ended item i of batch b answered with an error
ItemErrored(b, i) ==
    LET c == b.trace[i].calls
    IN  c # <<>> /\ Last(c)[2] \notin {"found", "ok"}

\* C9: send_messages_batch calls send_message once per handle, in input order;
\* an item entered logged in makes exactly one lookup and at most one delivery
\* call; a lookup or delivery error of item i gives a failed result for handle i,
\* never an exception out of the batch, and the loop goes on to the next handle.
C9_EachHandleOnce ==
    \A r \in Requests :
        LET b == batches[r]
        IN  /\ Len(b.trace) = Len(b.results) \/ b.trace = <<>>
            /\ Raised(b) => Len(b.delay_range) < 2
            /\ (Returned(b) /\ b.trace # <<>>) => Len(b.trace) = Len(b.usernames)
            /\ \A i \in Items(b) :
                  LET c == b.trace[i].calls
                  IN  /\ Cardinality(LookupsOf(c)) =
                             IF b.trace[i].logged_in THEN 1 ELSE 0
                      /\ Cardinality(DeliveriesOf(c)) <= 1
                      /\ ItemErrored(b, i) =>
                            /\ b.results[i].username = b.usernames[i]
                            /\ ~b.results[i].success
                            /\ (i < Len(b.usernames) /\ Len(b.delay_range) >= 2) =>
                                  \/ b.pc = "sleeping" /\ Len(b.trace) >= i
                                  \/ Returned(b) /\ Len(b.trace) = Len(b.usernames)

\* a returned batch whose first delivery raised and whose second handle was
\* then looked up and delivered
C9_Witness ==
    \E r \in Requests :
        /\ batches[r].pc = "done"
        /\ Len(batches[r].trace) = 2
        /\ ItemErrored(batches[r], 1)
        /\ Len(batches[r].trace[1].calls) = 2
        /\ batches[r].results[2].success
        /\ Len(batches[r].trace[2].calls) = 2

\* C10: send_message on a logged-in runner returns the failure "User not found"
\* without a delivery call when the lookup yields no id, success when
\* direct_send returns, and, when direct_send raises, a failure whose reason
\* carries the text of the error unchanged (after the fixed words "Failed to
\* send message: ").
C10_SendMessageResult ==
    \A r \in Requests : \A i \in Items(batches[r]) :
        LET c == batches[r].trace[i].calls
            res == batches[r].results[i]
        IN  batches[r].trace[i].logged_in =>
                /\ Len(c) \in {1, 2}
                /\ c[1][1] = "lookup"
                /\ c[1][2] = "missing" =>
                      Len(c) = 1 /\ ~res.success /\ res.error = <<"User not found">>
                /\ c[1][2] = "found" => Len(c) = 2 /\ c[2][1] = "deliver"
                /\ (Len(c) = 2 /\ c[2][2] = "ok") =>
                      res.success /\ res.error = None
                /\ (Len(c) = 2 /\ c[2][2] # "ok") =>
                      /\ ~res.success
                      /\ res.error = <<"Failed to send message: ", c[2][2]>>

\* both delivery errors were reported, each with its own text
C10_Witness ==
    \E r \in Requests :
        /\ Len(batches[r].results) = 2
        /\ Len(batches[r].trace[1].calls) = 2
        /\ Len(batches[r].trace[2].calls) = 2
        /\ batches[r].trace[1].calls[2] = <<"deliver", "timeout">>
        /\ Last(batches[r].results[1].error) = "timeout"
        /\ batches[r].trace[2].calls[2] = <<"deliver", "feedback_required">>
        /\ Last(batches[r].results[2].error) = "feedback_required"

\* the status request just answered named a token that was in the registry
StatusOn == resp.op = "status" /\ resp.sid \in DOMAIN resp.pre
\* seconds since the creation of the session the request named
Age == now - resp.pre[resp.sid].created_at

\* C4 as stated: the session is returned at every t < T and absent (and
\* evicted) at every t >= T, t = T included; no listing shows a session of
\* age T or more.
C4_AbsentFromT ==
    /\ StatusOn =>
          /\ Age < session_timeout => resp.found
          /\ Age >= session_timeout =>
                ~resp.found /\ resp.sid \notin DOMAIN sessions
    /\ resp.op = "sessions" =>
          \A s \in resp.listed : now - resp.pre[s].created_at < session_timeout

\* C4 (amended): a session created with timeout T is returned by get_session at
\* every t <= T, t = T included, and is absent at every t > T; the query at
\* t > T evicts it, and get_active_sessions lists exactly the sessions of the
\* registry of age at most T.
C4_ExpiryWindow ==
    /\ StatusOn =>
          /\ Age <= session_timeout =>
                resp.found /\ resp.sid \in DOMAIN sessions
          /\ Age > session_timeout =>
                ~resp.found /\ resp.sid \notin DOMAIN sessions
    /\ resp.op = "sessions" =>
          /\ resp.listed = {s \in DOMAIN resp.pre :
                               now - resp.pre[s].created_at <= session_timeout}
          /\ DOMAIN sessions = resp.listed

\* a status query later than T after the creation found the session in the
\* registry, reported it absent and evicted it
C4_Witness ==
    /\ StatusOn
    /\ Age > session_timeout
    /\ ~resp.found
    /\ resp.sid \notin DOMAIN sessions

\* C5: a login whose authentication failed without a challenge leaves the
\* registry as it was before the request.
C5_FailedLoginRollsBack ==
    (resp.op = "login" /\ ~resp.success /\ ~resp.challenge) =>
        /\ resp.sid \notin DOMAIN sessions
        /\ sessions = resp.pre

\* C6: after a login that ended in ChallengeRequired, the registry holds no
\* session for that attempt.
C6_ChallengeLeavesNoSession ==
    (resp.op = "login" /\ Last(resp.auth) = "challenge") =>
        resp.sid \notin DOMAIN sessions

\* C7: a runner starts logged out; is_logged_in turns true only in a login whose
\* last client.login succeeded, which records the identity; a login that ends in
\* a challenge or a failure leaves is_logged_in and username as they were.
C7_LoginFlag ==
    /\ resp.op = "none" => bots[1] = NewBot
    /\ (bots[1].is_logged_in /\ ~resp.bot_pre.is_logged_in) =>
          resp.op = "login" /\ Last(resp.auth) = "ok"
    /\ resp.op = "login" =>
          IF Last(resp.auth) = "ok"
          THEN bots[1].is_logged_in /\ bots[1].username = resp.username
          ELSE /\ bots[1].is_logged_in = resp.bot_pre.is_logged_in
               /\ bots[1].username = resp.bot_pre.username

\* a runner logged in as alice was asked to log in as bob, the client demanded
\* a challenge, and the runner is still logged in as alice
C7_Witness ==
    /\ resp.op = "login"
    /\ Last(resp.auth) = "challenge"
    /\ resp.username = "bob"
    /\ resp.bot_pre.is_logged_in
    /\ bots[1].is_logged_in
    /\ bots[1].username = "alice"

\* C8: within one login, no client.login call follows one that was answered
\* with ChallengeRequired.
C8_NoCallAfterChallenge ==
    resp.op = "login" =>
        \A k \in 1..(Len(resp.auth) - 1) : resp.auth[k] # "challenge"

\* C11: with a [min, max] delay range, a batch on a logged-in runner that has
\* finished k of its n items has waited k times while k < n, each wait following
\* the item of the same number, and max(0, n-1) times once it returned: no wait
\* follows the last item; for min <= max every waited duration lies in
\* [min, max].
C11_DelayWaits ==
    \A r \in Requests :
        LET b == batches[r]
            n == Len(b.usernames)
        IN  Len(b.delay_range) >= 2 =>
                /\ Len(b.delays) = IF Len(b.trace) < n THEN Len(b.trace)
                                                       ELSE Max(0, n - 1)
                /\ b.pc = "sleeping" =>
                      Len(b.delays) = Len(b.results) /\ Len(b.results) < n
                /\ (Returned(b) /\ b.trace # <<>>) =>
                      Len(b.delays) = n - 1 /\ Len(b.results) = n
                /\ b.delay_range[1] <= b.delay_range[2] =>
                      \A k \in 1..Len(b.delays) :
                          /\ b.delay_range[1] <= b.delays[k]
                          /\ b.delays[k] <= b.delay_range[2]

\* a batch over two handles on a logged-in runner returned after one wait, of
\* the longest duration of the range
C11_Witness ==
    \E r \in Requests :
        /\ batches[r].pc = "returned"
        /\ Len(batches[r].usernames) = 2
        /\ Len(batches[r].trace) = 2
        /\ batches[r].trace[1].logged_in
        /\ batches[r].delays = <<batches[r].delay_range[2]>>

\* the runner object that session s of registry reg owns
RunnerOf(reg, s) == reg[s].bot_manager

\* no two sessions of the registry own the same runner object
DistinctRunners ==
    \A s, t \in DOMAIN sessions :
        s # t => RunnerOf(sessions, s) # RunnerOf(sessions, t)

\* the step leaves alone the login flag and the identity of the runner of every
\* session other than the one its request named
OtherRunnersKept ==
    \A s \in DOMAIN sessions :
        s # resp'.sid =>
            /\ bots'[RunnerOf(sessions, s)].is_logged_in =
                   bots[RunnerOf(sessions, s)].is_logged_in
            /\ bots'[RunnerOf(sessions, s)].username =
                   bots[RunnerOf(sessions, s)].username

\* C12: any two sessions in the registry own distinct runner objects, and every
\* step taken for one session (login, logout, send-messages and the items of its
\* batch, expiry and the sweep) leaves the login flag and the identity of every
\* other session's runner unchanged.
C12_Isolation == [][DistinctRunners' /\ OtherRunnersKept]_vars

\* session 2 was logged out while its batch slept, and session 1 is still in
\* the registry with its own runner logged in as alice
C12_Witness ==
    /\ resp.op = "logout"
    /\ resp.found
    /\ resp.sid = 2
    /\ batches[1].pc = "sleeping"
    /\ batches[1].sid = 2
    /\ 1 \in DOMAIN sessions
    /\ RunnerOf(sessions, 1) # batches[1].bot
    /\ bots[RunnerOf(sessions, 1)].is_logged_in
    /\ bots[RunnerOf(sessions, 1)].username = "alice"

\* C13: a login is given a token that no session of the registry has; a login
\* that succeeded leaves exactly one new record, under that token and for its
\* user; and a record leaves the registry only in the logout made with its
\* token or at a time later than its expires_at.  Hence every login that
\* succeeded and has neither logged out nor expired has exactly one session,
\* and the tokens of the registry are pairwise distinct.
C13_OneSessionPerLogin ==
    [][/\ resp'.op = "login" => resp'.sid \notin DOMAIN sessions
       /\ (resp'.op = "login" /\ resp'.success) =>
             /\ DOMAIN sessions' = DOMAIN sessions \cup {resp'.sid}
             /\ sessions'[resp'.sid].username = resp'.username
             /\ \A s \in DOMAIN sessions : sessions'[s] = sessions[s]
       /\ \A s \in DOMAIN sessions \ DOMAIN sessions' :
             \/ resp'.op = "logout" /\ resp'.sid = s
             \/ now' > sessions[s].expires_at]_vars

\* two logins of alice succeeded, the first one has logged out, and the second
\* one still has its session and its runner logged in
C13_Witness ==
    /\ resp.op = "logout"
    /\ resp.found
    /\ resp.sid = 1
    /\ resp.pre[1].username = "alice"
    /\ DOMAIN sessions = {2}
    /\ sessions[2].username = "alice"
    /\ bots[sessions[2].bot_manager].is_logged_in
    /\ now <= sessions[2].expires_at

\* the token is in the registry and not expired
Live(reg, s, t) == s \in DOMAIN reg /\ t <= reg[s].expires_at

\* C14: a logout with the token of a live session succeeds, leaves the runner of
\* the session logged out with no identity, and removes exactly that record; a
\* token once out of the registry never enters it again, a status query with it
\* finds no session and no listing shows it; a logout with an absent or expired
\* token reports failure ("No active session found") and changes no other
\* session and no runner.
C14_Logout ==
    [][/\ (resp'.op = "logout" /\ Live(sessions, resp'.sid, now)) =>
             /\ resp'.found /\ resp'.success
             /\ ~bots'[RunnerOf(sessions, resp'.sid)].is_logged_in
             /\ bots'[RunnerOf(sessions, resp'.sid)].username = NoUser
             /\ sessions' = Remove(sessions, resp'.sid)
       /\ (resp'.op = "logout" /\ ~Live(sessions, resp'.sid, now)) =>
             /\ ~resp'.found /\ ~resp'.success
             /\ resp'.sid \notin DOMAIN sessions'
             /\ \A s \in DOMAIN sessions \ {resp'.sid} :
                   s \in DOMAIN sessions' /\ sessions'[s] = sessions[s]
             /\ bots' = bots
       /\ \A s \in DOMAIN sessions' \ DOMAIN sessions :
             resp'.op = "login" /\ resp'.sid = s /\ s >= nextToken
       /\ (resp'.op = "status" /\ resp'.sid \notin DOMAIN sessions) =>
             ~resp'.found
       /\ resp'.op = "sessions" => resp'.listed \subseteq DOMAIN sessions]_vars

\* alice's session was logged out while bob's session stayed, its runner
\* logged in
C14_Witness ==
    /\ resp.op = "logout"
    /\ resp.found
    /\ resp.sid = 1
    /\ resp.pre[1].username = "alice"
    /\ bots[resp.pre[1].bot_manager] =
           [is_logged_in |-> FALSE, username |-> NoUser, session_file |-> "alice"]
    /\ DOMAIN sessions = {2}
    /\ bots[sessions[2].bot_manager].username = "bob"

\* C15: when no runner is logged in, that is, when every login that handed out
\* a token has been followed by its logout, the listing of active sessions is
\* empty.
C15_NoSessionAfterLogouts ==
    (resp.op = "sessions" /\ \A o \in DOMAIN bots : ~bots[o].is_logged_in) =>
        resp.listed = {}

\* every runner of a session in the registry that is logged in records the
\* username of its session as its identity
IdentityIsSessionUser ==
    \A s \in DOMAIN sessions :
        bots[RunnerOf(sessions, s)].is_logged_in =>
            bots[RunnerOf(sessions, s)].username = sessions[s].username

\* C16: a login that succeeded leaves the runner of its session logged in under
\* the username of the session, and the runner of a session stays as it is for
\* as long as the session is in the registry, so a logged-in runner's identity
\* is always its session's username; a status query with the token of a live
\* session reports that runner's is_logged_in and identity, and with no token, an
\* unknown or an expired token it reports is_logged_in false and no identity;
\* either way the answer is a 200.
C16_Status ==
    [][/\ IdentityIsSessionUser'
       /\ (resp'.op = "login" /\ resp'.success) =>
             /\ bots'[RunnerOf(sessions', resp'.sid)].is_logged_in
             /\ bots'[RunnerOf(sessions', resp'.sid)].username =
                    sessions'[resp'.sid].username
       /\ \A s \in DOMAIN sessions \cap DOMAIN sessions' :
             /\ RunnerOf(sessions', s) = RunnerOf(sessions, s)
             /\ bots'[RunnerOf(sessions, s)] = bots[RunnerOf(sessions, s)]
       /\ (resp'.op = "status" /\ Live(sessions, resp'.sid, now)) =>
             /\ resp'.code = 200 /\ resp'.found
             /\ resp'.is_logged_in =
                    bots[RunnerOf(sessions, resp'.sid)].is_logged_in
             /\ resp'.username = bots[RunnerOf(sessions, resp'.sid)].username
             /\ resp'.is_logged_in =>
                    resp'.username = sessions[resp'.sid].username
       /\ (resp'.op = "status" /\ ~Live(sessions, resp'.sid, now)) =>
             /\ resp'.code = 200 /\ ~resp'.found
             /\ ~resp'.is_logged_in
             /\ resp'.username = NoUser]_vars

\* with alice's and bob's sessions both live, the status of bob's token showed
\* bob logged in
C16_Witness ==
    /\ resp.op = "status"
    /\ resp.sid = 2
    /\ resp.is_logged_in
    /\ resp.username = "bob"
    /\ DOMAIN sessions = {1, 2}
    /\ sessions[1].username = "alice"
    /\ bots[RunnerOf(sessions, 1)].is_logged_in

\* C17: a delete_session call does not raise and leaves the registry without
\* the token and with every other record as it was, whether or not the token
\* was present; a second call with the same token does not raise either and
\* leaves the registry that the first call left.
C17_DeleteIdempotent ==
    resp.op = "delete" =>
        /\ ~resp.raised
        /\ DOMAIN sessions = DOMAIN resp.pre \ {resp.sid}
        /\ \A s \in DOMAIN sessions : sessions[s] = resp.pre[s]
        /\ delete_session_call(sessions, resp.sid) =
               [reg |-> sessions, raised |-> FALSE]
        /\ resp.sid \notin DOMAIN resp.pre => sessions = resp.pre

\* delete_session was called a second time with the token of a session that the
\* first call had removed, with another session in the registry
C17_Witness ==
    /\ resp.op = "delete"
    /\ resp.sid = 1
    /\ nextToken > 2
    /\ now = 0
    /\ resp.pre = sessions
    /\ DOMAIN sessions = {2}

\* C18: cleanup_expired_sessions leaves in the registry exactly the records with
\* now <= expires_at, each one as it was: it removes every record with
\* now > expires_at and no other.
C18_Sweep ==
    resp.op = "cleanup" =>
        /\ DOMAIN sessions = {s \in DOMAIN resp.pre : now <= resp.pre[s].expires_at}
        /\ \A s \in DOMAIN resp.pre :
              now > resp.pre[s].expires_at => s \notin DOMAIN sessions
        /\ \A s \in DOMAIN sessions : sessions[s] = resp.pre[s]

\* a sweep removed an expired record and kept one that expires at this very
\* moment
C18_Witness ==
    /\ resp.op = "cleanup"
    /\ \E s \in DOMAIN resp.pre : now > resp.pre[s].expires_at
    /\ \E s \in DOMAIN sessions : now = sessions[s].expires_at

\* C19: the list that get_active_sessions returns has exactly one entry for each
\* record that was in the registry with now <= expires_at when it was called,
\* and no other entry: none for a record that had expired, none for a token
\* that a logout or a delete had removed; each entry carries the token,
\* username, created_at, last_activity and expires_at of its own record.
C19_Listing ==
    resp.op = "sessions" =>
        LET L == resp.infos
        IN  /\ {L[k].session_id : k \in 1..Len(L)} =
                   {s \in DOMAIN resp.pre : now <= resp.pre[s].expires_at}
            /\ \A j, k \in 1..Len(L) : j # k => L[j].session_id # L[k].session_id
            /\ \A k \in 1..Len(L) :
                  LET rec == resp.pre[L[k].session_id]
                  IN  /\ L[k].username = rec.username
                      /\ L[k].created_at = rec.created_at
                      /\ L[k].last_activity = rec.last_activity
                      /\ L[k].expires_at = rec.expires_at
                      /\ L[k].session_id \in DOMAIN sessions

\* of two sessions in the registry one had expired; the listing shows the other
\* alone, with the last_activity that its send-messages request set
C19_Witness ==
    /\ resp.op = "sessions"
    /\ Len(resp.infos) = 1
    /\ resp.infos[1].last_activity > resp.infos[1].created_at
    /\ \E s \in DOMAIN resp.pre : now > resp.pre[s].expires_at

\* C20: create_session adds one record to the registry, under a token that was
\* not in it, and leaves every other record as it was; the new record has
\* created_at = last_activity = now, expires_at = now + session_timeout (3600
\* seconds), the given username, and a runner that did not exist before, logged
\* out and without identity.
C20_CreateSession ==
    [][resp'.op = "create" =>
          /\ resp'.sid \notin DOMAIN sessions
          /\ DOMAIN sessions' = DOMAIN sessions \cup {resp'.sid}
          /\ Cardinality(DOMAIN sessions') = Cardinality(DOMAIN sessions) + 1
          /\ \A s \in DOMAIN sessions : sessions'[s] = sessions[s]
          /\ sessions'[resp'.sid].username = resp'.username
          /\ sessions'[resp'.sid].created_at = now
          /\ sessions'[resp'.sid].last_activity = now
          /\ sessions'[resp'.sid].expires_at = now + 3600
          /\ session_timeout = 3600
          /\ RunnerOf(sessions', resp'.sid) \notin DOMAIN bots
          /\ bots'[RunnerOf(sessions', resp'.sid)] = NewBot
          /\ ~NewBot.is_logged_in /\ NewBot.username = NoUser
          /\ \A o \in DOMAIN bots : bots'[o] = bots[o]]_vars

\* a session was created for bob an hour after alice's, which is still in the
\* registry
C20_Witness ==
    /\ resp.op = "create"
    /\ resp.username = "bob"
    /\ resp.sid = 2
    /\ now = 3600
    /\ DOMAIN sessions = {1, 2}
    /\ sessions[1].username = "alice"
    /\ sessions[1].created_at = 0
    /\ sessions[2].expires_at = 7200

\* C21: update_activity does not raise, adds and removes no record and touches
\* no runner; for a token in the registry it sets that record's last_activity to
\* now and leaves its expires_at, created_at, username and runner and every
\* other record as they were; for an absent token it changes nothing.
C21_UpdateActivity ==
    [][resp'.op = "update" =>
          /\ ~resp'.raised
          /\ DOMAIN sessions' = DOMAIN sessions
          /\ bots' = bots
          /\ \A s \in DOMAIN sessions :
                sessions'[s] = IF s = resp'.sid
                               THEN [sessions[s] EXCEPT !.last_activity = now]
                               ELSE sessions[s]
          /\ resp'.sid \notin DOMAIN sessions => sessions' = sessions]_vars

\* an hour after its creation the first session was touched: its last_activity
\* moved, its expiry did not, and the second session is as it was created
C21_Witness ==
    /\ resp.op = "update"
    /\ resp.sid = 1
    /\ DOMAIN sessions = {1, 2}
    /\ sessions[1].created_at = 0
    /\ sessions[1].last_activity = 3600
    /\ sessions[1].expires_at = 3600
    /\ sessions[2] = resp.pre[2]
    /\ sessions[2].last_activity = sessions[2].created_at

\* C22: every record of the registry has expires_at = created_at +
\* session_timeout, whatever accesses and activity updates it has seen, and
\* get_session returns no session later than created_at + session_timeout.
C22_FixedWindow ==
    /\ \A s \in DOMAIN sessions :
          sessions[s].expires_at = sessions[s].created_at + session_timeout
    /\ (resp.op = "get" /\ resp.found) =>
          now <= resp.pre[resp.sid].created_at + session_timeout

\* a session touched an hour after its creation was asked for an hour later
\* still, and was gone
C22_Witness ==
    /\ resp.op = "get"
    /\ ~resp.found
    /\ resp.sid \in DOMAIN resp.pre
    /\ resp.pre[resp.sid].last_activity > resp.pre[resp.sid].created_at
    /\ now <= resp.pre[resp.sid].last_activity + session_timeout
    /\ now > resp.pre[resp.sid].created_at + session_timeout

\* the step is the arrival of a send-messages request
SendArrives == \E r \in Requests : batches[r].pc = "idle" /\ batches'[r].pc # "idle"

\* C23: every status, send-messages and results request made with the token of
\* a live session sets the session's last_activity to the time of the request.
C23_EveryAccessRefreshes ==
    [][((SendArrives \/ resp'.op \in {"status", "results"})
          /\ Live(sessions, resp'.sid, now)) =>
             sessions'[resp'.sid].last_activity = now]_vars

\* the batch is in the wait between two of its items
InWait(b) == b.pc \in {"sleeping", "blocked"}

\* with the event loop as it is now, every registry method can run, a new
\* session can log in (while tokens are left), and every session other than a
\* can log out, send a new batch (while requests are left) and go on with a
\* batch of its own that has slept
OthersCanRun(a) ==
    /\ \A sid \in Tokens :
          /\ ENABLED (LoopFree /\ GetSession(sid))
          /\ ENABLED (LoopFree /\ DeleteSession(sid))
    /\ ENABLED (LoopFree /\ CleanupSessions)
    /\ ENABLED (LoopFree /\ GetActiveSessions)
    /\ nextToken <= MaxSessions =>
          \A u \in Users :
              /\ ENABLED (LoopFree /\ CreateSession(u))
              /\ ENABLED (LoopFree /\ Login(u, TRUE, "ok", "ok"))
    /\ \A cookie \in Tokens \ {a} :
          /\ ENABLED (LoopFree /\ Logout(cookie))
          /\ (\E q \in Requests : batches[q].pc = "idle") =>
                ENABLED (\E q \in Requests :
                            /\ LoopFree
                            /\ SendMessages(q, cookie, <<"carol", "dave">>, "hi",
                                            <<1, 1>>, "found", "ok", 1))
          /\ \A q \in Requests :
                (batches[q].sid = cookie /\ batches[q].pc = "sleeping") =>
                    ENABLED (LoopFree /\ BatchWake(q, "found", "ok", 1))

\* C24: while a batch of session A is in the wait between two items, every
\* registry method and every step of another session (login, logout, a new
\* batch, the next item of its own batch) is enabled, and such a step leaves
\* A's batch in its wait: it completes before the wait ends.
C24_WaitBlocksNobody ==
    /\ [](\A r \in Requests :
             InWait(batches[r]) => OthersCanRun(batches[r].sid))
    /\ [][\A r \in Requests :
             (InWait(batches[r]) /\ resp'.req # r) =>
                 batches'[r] = batches[r]]_vars

\* while session 1's batch slept, session 2 logged in, sent the first item of
\* a batch of its own and went to sleep too
C24_Witness ==
    /\ batches[1].pc = "sleeping"
    /\ batches[1].sid = 1
    /\ batches[2].pc = "sleeping"
    /\ batches[2].sid = 2
    /\ resp.op = "sleep"
    /\ resp.req = 2
    /\ Len(batches[1].results) = 1

C26_NoCallWithoutSession ==
    [][\A r \in Requests :
          (Len(batches'[r].trace) > Len(batches[r].trace)
             /\ batches'[r].sid \notin DOMAIN sessions) =>
                Last(batches'[r].trace).calls = <<>>]_vars

\* the token names a live session whose runner is logged in
Authenticated(sid) ==
    /\ Live(sessions, sid, now)
    /\ bots[RunnerOf(sessions, sid)].is_logged_in

\* C27: a send-messages request whose token names no live session, or a live
\* session whose runner is logged out, is answered 401; a request that passes
\* this test is never answered 401, is answered 400 if it is rejected, and is
\* served only with a non-empty username list and a message that is not blank;
\* a rejected request has made no lookup, no delivery and no wait.
C27_Rejections ==
    [][\A r \in Requests :
          (batches[r].pc = "idle" /\ batches'[r].pc # "idle") =>
              LET b == batches'[r]
              IN  /\ ~Authenticated(b.sid) =>
                        b.pc = "rejected" /\ b.code = 401 /\ resp'.code = 401
                  /\ Authenticated(b.sid) =>
                        /\ b.code # 401
                        /\ b.pc = "rejected" => b.code = 400 /\ resp'.code = 400
                        /\ b.pc # "rejected" =>
                              /\ b.usernames # <<>>
                              /\ b.message \notin {"", " "}
                  /\ b.pc = "rejected" =>
                        b.trace = <<>> /\ b.results = <<>> /\ b.delays = <<>>]_vars

\* a logged-in session's request was answered 400, with no client call made
C27_Witness ==
    /\ resp.op = "send"
    /\ resp.code = 400
    /\ batches[resp.req].pc = "rejected"
    /\ batches[resp.req].trace = <<>>
    /\ bots[RunnerOf(sessions, resp.sid)].is_logged_in

\* C28: get_session with a token that is in the registry and not expired returns
\* the session and leaves the registry as it was; with a token in the registry
\* and now > expires_at it returns absent and removes that record and no other;
\* with a token that is not in the registry it returns absent and changes
\* nothing.
C28_GetSession ==
    resp.op = "get" =>
        IF resp.sid \notin DOMAIN resp.pre
        THEN ~resp.found /\ sessions = resp.pre
        ELSE IF now > resp.pre[resp.sid].expires_at
             THEN ~resp.found /\ sessions = Remove(resp.pre, resp.sid)
             ELSE resp.found /\ sessions = resp.pre

\* get_session evicted one expired record and left the other expired record in
\* the registry
C28_Witness ==
    /\ resp.op = "get"
    /\ ~resp.found
    /\ resp.sid \in DOMAIN resp.pre
    /\ \E s \in DOMAIN sessions : now > sessions[s].expires_at

\* C29: with every delay-wait completing, a batch that waits between two items
\* eventually returns one result per handle and its request is answered,
\* whatever logouts, expiries, sweeps, listings and other sessions' logins
\* happen meanwhile.
C29_BatchReturns ==
    \A r \in Requests :
        (batches[r].pc = "sleeping") ~>
            (batches[r].pc = "done"
               /\ Len(batches[r].results) = Len(batches[r].usernames))

\* a batch returned both results although its session had expired and been
\* swept while it slept
C29_Witness ==
    \E r \in Requests :
        /\ batches[r].pc = "done"
        /\ Len(batches[r].results) = 2
        /\ batches[r].doc_user = "unknown"
        /\ now > 0

\* the run can go through: both files exist, config.json holds a username and
\* a password that the client accepts, the usernames file holds a handle
\* and the operator answers 'y'
CliGo ==
    /\ cli.config_exists /\ cli.usernames_exists
    /\ cli.credentials = "both" /\ cli.auth = "ok"
    /\ load_usernames_from_file(cli.lines) # <<>>
    /\ lower_strip(cli.answer) = "y"

C31_ConfigLogin ==
    resp.op = "config_login" =>
        /\ resp.success = (cli.credentials = "both" /\ cli.auth = "ok")
        /\ cli.logged_in = resp.success

\* the batch whose list the command-line bot has sent
Sent == batches[resp.req]

\* the last position of handle h in the list q
LastOf(q, h) == CHOOSE i \in 1..Len(q) :
                    q[i] = h /\ \A j \in (i + 1)..Len(q) : q[j] # h

\* C32 as stated: the command-line result holds one outcome per input handle,
\* and the success flag at each position equals the backend's.
C32_Agree ==
    resp.op = "send_list" =>
        /\ Len(cli.results) = Len(cli.usernames)
        /\ \A i \in 1..Len(cli.usernames) :
              /\ cli.results[i].username = cli.usernames[i]
              /\ cli.results[i].success = Sent.results[i].success

\* C32, amended: a logged-in command-line bot returns one outcome per
\* distinct handle, in the order of the handles' first positions, equal to
\* the backend's success flag at the handle's last position; a bot that is
\* not logged in returns nothing, where the backend returns one failed result
\* per handle.
C32_AgreeOnLast ==
    resp.op = "send_list" =>
        IF cli.logged_in
        THEN /\ Len(cli.results) = Cardinality(Range(cli.usernames))
             /\ \A k \in 1..Len(cli.results) :
                   LET h == cli.results[k].username
                   IN  /\ h \in Range(cli.usernames)
                       /\ cli.results[k].success =
                             Sent.results[LastOf(cli.usernames, h)].success
                       /\ \A j \in 1..(k - 1) :
                             \E i \in 1..Len(cli.usernames) :
                                /\ cli.usernames[i] = cli.results[j].username
                                /\ \A m \in 1..i : cli.usernames[m] # h
             /\ Len(cli.delivered) =
                   Cardinality({i \in Items(Sent) :
                                   DeliveriesOf(Sent.trace[i].calls) # {}})
        ELSE /\ cli.results = <<>>
             /\ cli.delivered = <<>>
             /\ Len(Sent.results) = Len(cli.usernames)
             /\ \A i \in 1..Len(cli.usernames) : ~Sent.results[i].success

\* a logged-in bot sent to the same handle twice, the first delivery failed
\* and the second went through
C32_Witness ==
    /\ resp.op = "send_list"
    /\ cli.logged_in
    /\ Len(cli.usernames) = 2
    /\ cli.usernames[1] = cli.usernames[2]
    /\ ~Sent.results[1].success
    /\ Sent.results[2].success

\* item i of batch b made a delivery call
Delivers(b, i) == DeliveriesOf(b.trace[i].calls) # {}

\* request r starts in this step and its first item makes a delivery call
StartsDelivering(r) ==
    /\ batches[r].pc = "idle"
    /\ batches'[r].trace # <<>>
    /\ Delivers(batches'[r], 1)

\* q is the only request that has sent an item through runner bm before
OnlyEarlierUser(q, bm) ==
    /\ batches[q].bot = bm
    /\ batches[q].trace # <<>>
    /\ \A p \in Requests \ {q} :
          batches[p].bot # bm \/ batches[p].trace = <<>>

\* C33: two successive delivery calls of one runner have a completed
\* delay-wait of that runner between them. A request that starts makes its
\* first delivery call with no wait before it, so the runner's last event
\* must not be a delivery: when one other request has used the runner, the
\* last item of that request (sent at its start or after its last wait) made
\* no delivery call.
C33_Paced ==
    [][\A r \in Requests :
          StartsDelivering(r) =>
             \A q \in Requests \ {r} :
                OnlyEarlierUser(q, batches'[r].bot) =>
                   ~Delivers(batches[q], Len(batches[q].trace))]_vars

\* C34 as stated: the results document of a finished request names a
\* username, that of the account whose session started the batch (the
\* username its runner was logged in with).
C34_DocNamesStarter ==
    \A r \in Requests :
        batches[r].pc = "done" =>
            /\ batches[r].doc_user \in Users
            /\ bots[batches[r].bot].username # NoUser =>
                  batches[r].doc_user = bots[batches[r].bot].username

\* C34, amended: the results document names the username of the session when
\* the session is still registered and unexpired as the batch returns, and
\* "unknown" when a logout, the expiry or a sweep has removed it meanwhile.
C34_DocNamesLiveSession ==
    (resp.op = "send" /\ resp.code = 200) =>
        batches[resp.req].doc_user =
            IF Live(resp.pre, resp.sid, now)
            THEN resp.pre[resp.sid].username
            ELSE "unknown"

\* a batch ended after the logout of its session: its second item was not
\* sent and its document names "unknown"
C34_Witness ==
    /\ resp.op = "send"
    /\ resp.code = 200
    /\ resp.sid \notin DOMAIN resp.pre
    /\ Len(batches[resp.req].results) = 2
    /\ ~batches[resp.req].results[2].success
    /\ batches[resp.req].doc_user = "unknown"

\* C35: a send-messages request that is answered with an error (401, 400 or
\* 500) has made no delivery call, whatever delay_range it carried; a request
\* that delivered at least one message is answered with its results.
C35_ErrorMeansNoDelivery ==
    \A r \in Requests :
        batches[r].pc \in {"rejected", "failed"} =>
            \A i \in Items(batches[r]) :
                DeliveriesOf(batches[r].trace[i].calls) = {}

\* the lines of a text that are neither blank nor '#' comments, trimmed, in
\* their order
ValidLines(text) ==
    LET keep == SelectSeq(text, LAMBDA l :
                    /\ l \notin {"", "  "}
                    /\ l \notin {"#skip", " #note"})
    IN  [k \in 1..Len(keep) |-> IF keep[k] = " dave " THEN "dave" ELSE keep[k]]

\* C36: an upload request whose text holds no username (it is empty or holds
\* only blank and comment lines) is answered 400 and leaves usernames.txt as it
\* was; any other request is answered 200 and stores the valid lines of its
\* text, trimmed, in their order.
C36_Upload ==
    [][resp'.op = "upload" =>
          IF ValidLines(resp'.text) = <<>>
          THEN resp'.code = 400 /\ cli' = cli
          ELSE /\ resp'.code = 200
               /\ cli'.usernames_exists
               /\ cli'.lines = ValidLines(resp'.text)]_vars

====
